---- MODULE Spec2Model ----
(***************************************************************************)
(* A model of simplipy's authenticated request engine (simplipy/api.py):   *)
(* the API object's token state, the backoff retry loop that wraps         *)
(* API._async_request, the on_backoff handler that refreshes the access    *)
(* token behind an asyncio.Lock, and the refresh-token listeners.          *)
(*                                                                         *)
(* The program runs on one asyncio event loop: a coroutine runs without    *)
(* interruption between two awaits that really suspend (a network          *)
(* response, a contended lock, asyncio.sleep).  Every action below is one  *)
(* such uninterrupted run of one coroutine, or one step of the             *)
(* environment (the clock, the caller registering listeners).              *)
(***************************************************************************)
EXTENDS Integers, Sequences, FiniteSets, TLC

(***************************************************************************)
(* Bounds of the model.                                                    *)
(***************************************************************************)
MaxTime == 6
MaxRetries == 3
MaxRegistrations == 2
MaxTextLen == 4
MaxFrames == 1
MaxTriggers == 3

(***************************************************************************)
(* Program constants.                                                      *)
(***************************************************************************)
DEFAULT_REQUEST_RETRIES == 4
DEFAULT_TOKEN_EXPIRATION_WINDOW == 5

Requests == {"r1", "r2"}
NoRequest == "none"
Caller == "r1"
Callbacks == {"cb1", "cb2"}
OK == 200
Statuses == {OK, 401, 403, 409}
MaxTokens == 1 + Cardinality(Requests) * (MaxRetries - 1)
TokenIds == 1..MaxTokens

\* tokens, timestamp and user id before anything is stored (None)
None == 0
NoTime == -1
\* the userId that api/authCheck answers
UserId == 1

\* calls of WebsocketClient.async_connect and async_disconnect
Connects == {"k1", "k2"}
Disconnects == {"d1", "d2"}
WsCalls == Connects \cup Disconnects
Listener == "k1"
NoConnection == 0
\* the callback registries of the websocket client
CallbackKinds == {"connect", "event"}
\* aiohttp.WSMsgType of the frames that receive() hands to the caller
\* (pings and pongs are answered inside aiohttp)
FrameTypes == {"CLOSE", "CLOSED", "CLOSING", "ERROR", "TEXT", "BINARY"}
\* what msg.json() finds in the frame: an event envelope, another JSON
\* object, or no JSON at all
Payloads == {"event", "other", "invalid"}
\* every payload in a TEXT frame; in the other frames one that would decode
\* to an event and one that is no JSON
Frames ==
    {f \in [type : FrameTypes, payload : Payloads] :
        f.type = "TEXT" \/ f.payload # "other"}
NoFrame == [type |-> "none", payload |-> "none"]
\* what session.ws_connect raises
ConnectErrors == {"ServerDisconnectedError", "WSServerHandshakeError", "ClientError"}

\* characters of a response body: a letter, the double quote, the backslash
Quote == "\""
Backslash == "\\"
Alphabet == {"U", Quote, Backslash}
Texts == UNION {[1..n -> Alphabet] : n \in 0..MaxTextLen}
\* a key that a JSON object does not have
Absent == <<"absent">>
Types == {"none", "NoRemoteManagement"}

VARIABLES
    \* --- the API object (API.__init__, api.py:59-72) ---
    access_token,             \* id of the token pair the access token came from
    refresh_token,            \* id of the token pair the refresh token came from
    token_last_refreshed,     \* API._token_last_refreshed
    lock_owner,               \* API._backoff_refresh_lock: holder, or NoRequest
    lock_waiters,             \* API._backoff_refresh_lock: FIFO of waiters
    refresh_token_callbacks,  \* API._refresh_token_callbacks (a list)
    request_retries,          \* API._request_retries
    async_request,            \* max_tries of the wrapper bound to API.async_request
    \* --- one coroutine per call of API.async_request ---
    pc,                       \* where the coroutine is suspended
    tries,                    \* backoff's attempt counter
    max_tries,                \* max_tries of the wrapper the call went through
    sent_token,               \* access token in the Authorization header in flight
    window,                   \* local variable of _async_handle_on_backoff
    rt_sent,                  \* refresh token in the body of the refresh in flight
    result,                   \* what the call returned or raised
    data,                     \* payload returned by the call
    err,                      \* status of the last ClientResponseError
    \* --- environment ---
    now,                      \* datetime.utcnow(), in seconds
    issued,                   \* number of token pairs the token endpoint issued
    handles,                  \* the de-registration handles given out
    call_count,               \* per listener: number of invocations
    call_args,                \* per listener: argument of the last invocation
    \* --- history ---
    h_token,                  \* access token stored when the handler started
    h_calls,                  \* token endpoint calls of the current handler run
    refresh_status,           \* status answered to the request's last refresh
    refresh_raised,           \* what _async_refresh_access_token raised
    refresh_calls,            \* per stale token: refresh calls issued against it
    refresh_ok,               \* number of successful refreshes
    refresh_failures,         \* number of failed refreshes
    expected,                 \* per listener: invocations its registrations call for
    \* --- construction (API.async_from_auth, API.async_from_refresh_token) ---
    auth_pc,                  \* where the factory coroutine is suspended
    grant,                    \* grant_type of the factory's token call
    user_id,                  \* API.user_id
    websocket,                \* API.websocket is a WebsocketClient
    token_calls,              \* token endpoint calls made by the factory
    authcheck_calls,          \* api/authCheck calls made by the factory
    auth_status,              \* status answered to the factory's token call
    auth_result,              \* what the factory returned or raised
    auth_ok,                  \* number of successful authorization-code exchanges
    \* --- retry switch and plan restrictions ---
    last_toggle,              \* the last of disable_/enable_request_retries called
    unavailable_status,       \* status of the NoRemoteManagement answer a call got
    \* --- one response going through API._async_request ---
    response,                 \* the response: status and body
    outcome,                  \* what _async_request made of it
    \* --- the websocket client (WebsocketClient, websocket.py) ---
    ws_client,                \* WebsocketClient._client: a connection, or NoConnection
    ws_conns,                 \* the connections that session.ws_connect returned
    ws_pc,                    \* per call of async_connect / async_disconnect: position
    ws_conn_of,               \* the connection the call's pending await is on
    ws_result,                \* what the call returned or raised
    ws_connect_error,         \* what session.ws_connect raised to the call
    ws_last_frame,            \* the last frame the call's receive returned
    ws_parsed,                \* frames the call gave to _parse_response_payload
    ws_events,                \* WebsocketEvent objects the call built
    ws_was_connected,         \* WebsocketClient.connected when the call began (for async_disconnect: the pending receiver)
    \* --- the websocket client's callback registries ---
    ws_callbacks,             \* per kind ("connect", "event"): the registered callbacks
    ws_handles,               \* the de-registration handles handed out
    ws_calls,                 \* per kind: how often and with what each callback was called
    \* --- a system and a lock of the account ---
    sys_state,                \* System._state
    door_state,               \* Lock._state
    dev_pc,                   \* where the state-setting coroutine is suspended
    dev_call,                 \* the state-setting call: which method, which value
    dev_before,               \* <<System._state, Lock._state>> when the call started
    dev_result,               \* how the last state-setting call ended
    \* --- decoding one websocket event ---
    ev_payload,               \* the "data" object of the message
    ev_event,                 \* the WebsocketEvent made from it
    ev_log,                   \* the warnings logged while making it
    \* --- the websocket watchdog ---
    wd_timers,                \* the timers handed to the event loop
    wd_timer_task,            \* Watchdog._timer_task: index of a timer
    wd_calls                  \* invocations of the watchdog's action

apiVars == <<access_token, refresh_token, token_last_refreshed>>
lockVars == <<lock_owner, lock_waiters>>
cfgVars == <<request_retries, async_request>>
reqVars == <<pc, tries, max_tries, sent_token, window, rt_sent, result, data, err>>
cbVars == <<refresh_token_callbacks, handles, call_count, call_args>>
histVars == <<h_token, h_calls, refresh_status, refresh_raised, refresh_calls,
              refresh_ok, refresh_failures, expected>>
authVars == <<auth_pc, grant, user_id, websocket, token_calls, authcheck_calls,
              auth_status, auth_result, auth_ok>>
respVars == <<response, outcome>>
wsVars == <<ws_client, ws_conns, ws_pc, ws_conn_of, ws_result, ws_connect_error,
            ws_last_frame, ws_parsed, ws_events, ws_was_connected>>
wsCbVars == <<ws_callbacks, ws_handles, ws_calls>>
devVars == <<sys_state, door_state, dev_pc, dev_call, dev_before, dev_result>>
evVars == <<ev_payload, ev_event, ev_log>>
wdVars == <<wd_timers, wd_timer_task, wd_calls>>
auxVars == <<devVars, evVars, wdVars>>
extVars == <<authVars, last_toggle, unavailable_status, respVars, wsVars, wsCbVars,
             auxVars>>
vars == <<apiVars, lockVars, cfgVars, reqVars, cbVars, histVars, now, issued,
          extVars>>

(***************************************************************************)
(* Pure helpers, as the code computes them.                                *)
(***************************************************************************)

\* variant: every error status is taken for an authentication failure
IsAuthFailure_any(status) == status # OK

\* err.status in (401, 403)
IsAuthFailure(status) == status \in {401, 403}

\* window = (datetime.utcnow() - self._token_last_refreshed).total_seconds()
Window(t, last) == t - last

\* variant: the freshness check is missing, every 401/403 refreshes
SkipRefresh_never(w) == FALSE

\* if window < DEFAULT_TOKEN_EXPIRATION_WINDOW: return
SkipRefresh(w) == w < DEFAULT_TOKEN_EXPIRATION_WINDOW

\* variant: only 401 is taken for an authentication failure
RefreshError_only401(status) ==
    IF status = 401 THEN "InvalidCredentialsError" ELSE "RequestError"

\* except ClientResponseError in _async_refresh_access_token
RefreshError(status) ==
    IF status \in {401, 403} THEN "InvalidCredentialsError" ELSE "RequestError"

\* variant: backoff gives up one attempt late
MaxTriesExceeded_late(t, m) == t = m + 1

\* backoff.on_exception gives up when tries == max_tries
MaxTriesExceeded(t, m) == t = m

\* the token endpoint's n-th answer {access_token, refresh_token}
TokenResponse(n) == [access_token |-> n, refresh_token |-> n]

\* variant: the first entry is dropped, whatever it is
RemoveFirst_head(s, x) == IF s = <<>> THEN <<>> ELSE Tail(s)

\* list.remove(callback): drops the first occurrence
RECURSIVE RemoveFirst(_, _)
RemoveFirst(s, x) ==
    IF s = <<>> THEN <<>>
    ELSE IF Head(s) = x THEN Tail(s)
    ELSE <<Head(s)>> \o RemoveFirst(Tail(s), x)

\* simplipy.util.schedule_callback(callback, arg): the listener is called
\* with arg; m is the listeners' call record
schedule_callback(m, callback, arg) ==
    [count |-> [m.count EXCEPT ![callback] = @ + 1],
     args  |-> [m.args EXCEPT ![callback] = arg]]

\* variant: only the first listener is notified
NotifyCallbacks_first(m, cbs, token) ==
    IF cbs = <<>> THEN m ELSE schedule_callback(m, Head(cbs), token)

\* for callback in self._refresh_token_callbacks: schedule_callback(...)
RECURSIVE NotifyCallbacks(_, _, _)
NotifyCallbacks(m, cbs, token) ==
    IF cbs = <<>> THEN m
    ELSE NotifyCallbacks(schedule_callback(m, Head(cbs), token), Tail(cbs), token)

\* number of registrations of listener c whose handle was not called yet
Live(c) ==
    Cardinality({h \in DOMAIN handles :
                    handles[h].callback = c /\ ~handles[h].called})

\* number of occurrences of x in the list s
RECURSIVE Count(_, _)
Count(s, x) ==
    IF s = <<>> THEN 0
    ELSE (IF Head(s) = x THEN 1 ELSE 0) + Count(Tail(s), x)

(***************************************************************************)
(* API._async_request: what it makes of one response.  A body is either    *)
(* raw text, which json.loads has to parse, or a JSON object, kept by the  *)
(* two keys the code looks at ("type", "error").                           *)
(***************************************************************************)
TextBody(text) == [json |-> "text", type |-> "none", value |-> text]
ObjectBody(t, e) == [json |-> "object", type |-> t, value |-> e]
Bodies ==
    {TextBody(text) : text \in Texts}
        \cup {ObjectBody(t, e) : t \in Types, e \in {<<>>, <<"U">>, <<Quote>>, Absent}}
Responses == [status : Statuses, body : Bodies]
NoResponse == [status |-> 0, body |-> ObjectBody("none", Absent)]
NoData == [type |-> "none", error |-> Absent]
NoOutcome == [kind |-> "none", status |-> 0, data |-> NoData]

\* the characters between the quotes of a JSON string literal, decoded:
\* a backslash escapes a quote or a backslash, a bare quote ends the literal
RECURSIVE Unescape(_)
Unescape(s) ==
    IF s = <<>> THEN [ok |-> TRUE, value |-> <<>>]
    ELSE IF Head(s) = Quote THEN [ok |-> FALSE, value |-> <<>>]
    ELSE IF Head(s) = Backslash
         THEN IF Len(s) >= 2 /\ s[2] \in {Quote, Backslash}
              THEN LET rest == Unescape(SubSeq(s, 3, Len(s)))
                   IN [ok |-> rest.ok, value |-> <<s[2]>> \o rest.value]
              ELSE [ok |-> FALSE, value |-> <<>>]
    ELSE LET rest == Unescape(Tail(s))
         IN [ok |-> rest.ok, value |-> <<Head(s)>> \o rest.value]

\* await resp.json(content_type=None): json.loads of the body text; over
\* this alphabet the only valid JSON text is a string literal
JSONDecode(text) ==
    IF Len(text) >= 2 /\ text[1] = Quote /\ text[Len(text)] = Quote
    THEN Unescape(SubSeq(text, 2, Len(text) - 1))
    ELSE [ok |-> FALSE, value |-> <<>>]

\* variant: the decoded string is used as it is
StripQuotes_kept(s) == s

\* data.replace('"', "")
RECURSIVE StripQuotes(_)
StripQuotes(s) ==
    IF s = <<>> THEN <<>>
    ELSE IF Head(s) = Quote THEN StripQuotes(Tail(s))
    ELSE <<Head(s)>> \o StripQuotes(Tail(s))

\* data after the try/except and the isinstance(data, str) branch
ResponseData(body) ==
    IF body.json = "object" THEN [type |-> body.type, error |-> body.value]
    ELSE LET d == JSONDecode(body.value)
         IN IF d.ok THEN [type |-> "none", error |-> StripQuotes(d.value)]
            ELSE [type |-> "none", error |-> body.value]

\* the rest of _async_request: the plan restriction is looked for before
\* resp.raise_for_status()
AsyncRequestOutcome(status, body) ==
    LET d == ResponseData(body)
    IN IF d.type = "NoRemoteManagement"
       THEN [kind |-> "EndpointUnavailableError", status |-> status, data |-> NoData]
       ELSE IF status # OK
       THEN [kind |-> "ClientResponseError", status |-> status, data |-> NoData]
       ELSE [kind |-> "return", status |-> status, data |-> d]

\* variant: every failure of the grant is reported as a RequestError
AuthError_generic(status) == "RequestError"

\* except ClientResponseError in async_from_auth
AuthError(status) ==
    IF status \in {401, 403} THEN "InvalidCredentialsError" ELSE "RequestError"

\* no state-setting call was made yet
NoCall == [kind |-> "none", value |-> "none"]

\* Watchdog._timer_task is None
NoTimer == 0

\* no message was received, no event was made
NoPayload == [eventCid |-> 0, info |-> "none", sid |-> 0, sensorType |-> None]
NoEvent == [raised |-> "none", event_type |-> "none", info |-> "none",
            system_id |-> 0, sensor_type |-> "none"]
NoEvents ==
    /\ ev_payload = NoPayload
    /\ ev_event = NoEvent
    /\ ev_log = <<>>

(***************************************************************************)
(* The state after construction: API.async_from_auth has stored the first  *)
(* token pair and stamped it; no listener is registered, no request runs.  *)
(***************************************************************************)
Idle ==
    /\ lock_owner = NoRequest
    /\ lock_waiters = <<>>
    /\ refresh_token_callbacks = <<>>
    /\ request_retries \in 1..MaxRetries
    /\ async_request = request_retries
    /\ pc = [r \in Requests |-> "idle"]
    /\ tries = [r \in Requests |-> 0]
    /\ max_tries = [r \in Requests |-> 0]
    /\ sent_token = [r \in Requests |-> 0]
    /\ window = [r \in Requests |-> 0]
    /\ rt_sent = [r \in Requests |-> 0]
    /\ result = [r \in Requests |-> "none"]
    /\ data = [r \in Requests |-> 0]
    /\ err = [r \in Requests |-> 0]
    /\ now = 0
    /\ handles = <<>>
    /\ call_count = [c \in Callbacks |-> 0]
    /\ call_args = [c \in Callbacks |-> 0]
    /\ h_token = [r \in Requests |-> 0]
    /\ h_calls = [r \in Requests |-> 0]
    /\ refresh_status = [r \in Requests |-> 0]
    /\ refresh_raised = [r \in Requests |-> "none"]
    /\ refresh_calls = [g \in TokenIds |-> 0]
    /\ refresh_ok = 0
    /\ refresh_failures = 0
    /\ expected = [c \in Callbacks |-> 0]
    /\ last_toggle = "none"
    /\ unavailable_status = [r \in Requests |-> 0]
    /\ ws_client = NoConnection
    /\ ws_conns = <<>>
    /\ ws_pc = [p \in WsCalls |-> "idle"]
    /\ ws_conn_of = [p \in WsCalls |-> NoConnection]
    /\ ws_result = [p \in WsCalls |-> "none"]
    /\ ws_connect_error = [c \in Connects |-> "none"]
    /\ ws_last_frame = [c \in Connects |-> NoFrame]
    /\ ws_parsed = [c \in Connects |-> 0]
    /\ ws_events = [c \in Connects |-> 0]
    /\ ws_was_connected = [p \in WsCalls |-> "unknown"]
    /\ ws_callbacks = [k \in CallbackKinds |-> <<>>]
    /\ ws_handles = <<>>
    /\ ws_calls = [k \in CallbackKinds |->
                     [count |-> [cb \in Callbacks |-> 0],
                      args |-> [cb \in Callbacks |-> "none"]]]
    /\ sys_state = "off"
    /\ door_state = "locked"
    /\ dev_pc = "idle"
    /\ dev_call = NoCall
    /\ dev_before = <<"off", "locked">>
    /\ dev_result = "none"
    /\ wd_timers = <<>>
    /\ wd_timer_task = NoTimer
    /\ wd_calls = 0

\* what the factory leaves behind when it returns the API object
Constructed ==
    /\ access_token = TokenResponse(1).access_token
    /\ refresh_token = TokenResponse(1).refresh_token
    /\ token_last_refreshed = 0
    /\ issued = 1
    /\ auth_pc = "ready"
    /\ grant = "authorization_code"
    /\ user_id = UserId
    /\ websocket = TRUE
    /\ token_calls = 1
    /\ authcheck_calls = 1
    /\ auth_status = OK
    /\ auth_result = "ok"
    /\ auth_ok = 1

Init ==
    /\ Constructed
    /\ Idle
    /\ NoEvents
    /\ response = NoResponse
    /\ outcome = NoOutcome

(***************************************************************************)
(* API.async_request: backoff.on_exception around API._async_request.      *)
(***************************************************************************)

\* A caller awaits self.async_request(...): the first attempt builds its
\* headers from the stored access token and suspends on the HTTP call.
Call(r) ==
    /\ pc[r] = "idle"
    /\ pc' = [pc EXCEPT ![r] = "request"]
    /\ tries' = [tries EXCEPT ![r] = 1]
    /\ max_tries' = [max_tries EXCEPT ![r] = async_request]
    /\ sent_token' = [sent_token EXCEPT ![r] = access_token]
    /\ UNCHANGED <<window, rt_sent, result, data, err>>
    /\ UNCHANGED <<apiVars, lockVars, cfgVars, extVars, cbVars, histVars, now, issued>>

\* The attempt gets a 2xx answer: _async_request returns the payload and
\* backoff returns it to the caller.
Succeed(r) ==
    /\ pc[r] = "request"
    /\ pc' = [pc EXCEPT ![r] = "done"]
    /\ result' = [result EXCEPT ![r] = "ok"]
    /\ data' = [data EXCEPT ![r] = tries[r]]
    /\ UNCHANGED <<tries, max_tries, sent_token, window, rt_sent, err>>
    /\ UNCHANGED <<apiVars, lockVars, cfgVars, extVars, cbVars, histVars, now, issued>>

\* variant: a 401/403 on the last try is reported as bad credentials
GiveUp_invalidCredentials(r, s) ==
    /\ pc[r] = "request"
    /\ s # OK
    /\ MaxTriesExceeded(tries[r], max_tries[r])
    /\ pc' = [pc EXCEPT ![r] = "done"]
    /\ result' = [result EXCEPT ![r] = RefreshError(s)]
    /\ err' = [err EXCEPT ![r] = s]
    /\ UNCHANGED <<tries, max_tries, sent_token, window, rt_sent, data>>
    /\ UNCHANGED <<apiVars, lockVars, cfgVars, extVars, cbVars, histVars, now, issued>>

\* The attempt raises ClientResponseError on the last permitted try:
\* _handle_on_giveup raises RequestError.
GiveUp(r, s) ==
    /\ pc[r] = "request"
    /\ s # OK
    /\ MaxTriesExceeded(tries[r], max_tries[r])
    /\ pc' = [pc EXCEPT ![r] = "done"]
    /\ result' = [result EXCEPT ![r] = "RequestError"]
    /\ err' = [err EXCEPT ![r] = s]
    /\ UNCHANGED <<tries, max_tries, sent_token, window, rt_sent, data>>
    /\ UNCHANGED <<apiVars, lockVars, cfgVars, extVars, cbVars, histVars, now, issued>>

\* The attempt raises a ClientResponseError that is not 401/403 and tries
\* remain: the handler only logs, backoff sleeps.
BackoffOther(r, s) ==
    /\ pc[r] = "request"
    /\ s # OK
    /\ ~MaxTriesExceeded(tries[r], max_tries[r])
    /\ ~IsAuthFailure(s)
    /\ pc' = [pc EXCEPT ![r] = "sleep"]
    /\ err' = [err EXCEPT ![r] = s]
    /\ UNCHANGED <<tries, max_tries, sent_token, window, rt_sent, result, data>>
    /\ UNCHANGED <<apiVars, lockVars, cfgVars, extVars, cbVars, histVars, now, issued>>

\* variant: the refresh call sends the token pair the handler saw rejected
CriticalSection_stale(r, w, q, g) ==
    /\ lock_waiters' = q
    /\ IF SkipRefresh(w)
       THEN /\ pc' = [pc EXCEPT ![r] = "sleep"]
            /\ lock_owner' = NoRequest
            /\ h_calls' = [h_calls EXCEPT ![r] = 0]
            /\ UNCHANGED <<rt_sent, refresh_calls>>
       ELSE /\ pc' = [pc EXCEPT ![r] = "refresh"]
            /\ lock_owner' = r
            /\ rt_sent' = [rt_sent EXCEPT ![r] = TokenResponse(g).refresh_token]
            /\ h_calls' = [h_calls EXCEPT ![r] = 1]
            /\ refresh_calls' = [refresh_calls EXCEPT ![g] = @ + 1]

\* The body of "async with self._backoff_refresh_lock" once request r holds
\* the lock, with w the window it computed, q the remaining waiters and g
\* the access token that was stored when its handler started.
CriticalSection(r, w, q, g) ==
    /\ lock_waiters' = q
    /\ IF SkipRefresh(w)
       THEN /\ pc' = [pc EXCEPT ![r] = "sleep"]
            /\ lock_owner' = NoRequest
            /\ h_calls' = [h_calls EXCEPT ![r] = 0]
            /\ UNCHANGED <<rt_sent, refresh_calls>>
       ELSE /\ pc' = [pc EXCEPT ![r] = "refresh"]
            /\ lock_owner' = r
            /\ rt_sent' = [rt_sent EXCEPT ![r] = refresh_token]
            /\ h_calls' = [h_calls EXCEPT ![r] = 1]
            /\ refresh_calls' = [refresh_calls EXCEPT ![g] = @ + 1]

\* The attempt raises a 401/403 and tries remain: _async_handle_on_backoff
\* computes the window, then enters the lock or queues on it.
BackoffAuth(r, s) ==
    /\ pc[r] = "request"
    /\ ~MaxTriesExceeded(tries[r], max_tries[r])
    /\ IsAuthFailure(s)
    /\ err' = [err EXCEPT ![r] = s]
    /\ window' = [window EXCEPT ![r] = Window(now, token_last_refreshed)]
    /\ h_token' = [h_token EXCEPT ![r] = access_token]
    /\ IF lock_owner = NoRequest /\ lock_waiters = <<>>
       THEN CriticalSection(r, Window(now, token_last_refreshed),
                            lock_waiters, access_token)
       ELSE /\ pc' = [pc EXCEPT ![r] = "lock_wait"]
            /\ lock_waiters' = Append(lock_waiters, r)
            /\ h_calls' = [h_calls EXCEPT ![r] = 0]
            /\ UNCHANGED <<lock_owner, rt_sent, refresh_calls>>
    /\ UNCHANGED <<tries, max_tries, sent_token, result, data>>
    /\ UNCHANGED <<refresh_status, refresh_raised, refresh_ok, refresh_failures,
                   expected>>
    /\ UNCHANGED <<apiVars, cfgVars, extVars, cbVars, now, issued>>

\* The lock was released and r is the first waiter: it takes the lock and
\* runs the critical section with the window it computed before waiting.
LockGranted(r) ==
    /\ pc[r] = "lock_wait"
    /\ lock_owner = NoRequest
    /\ lock_waiters # <<>>
    /\ Head(lock_waiters) = r
    /\ CriticalSection(r, window[r], Tail(lock_waiters), h_token[r])
    /\ UNCHANGED <<tries, max_tries, sent_token, window, result, data, err>>
    /\ UNCHANGED <<h_token, refresh_status, refresh_raised, refresh_ok,
                   refresh_failures, expected>>
    /\ UNCHANGED <<apiVars, cfgVars, extVars, cbVars, now, issued>>

\* variant: the refresh token is not stored with the access token
RefreshSucceed_half(r) ==
    /\ pc[r] = "refresh"
    /\ issued' = issued + 1
    /\ token_last_refreshed' = now
    /\ access_token' = TokenResponse(issued + 1).access_token
    /\ lock_owner' = NoRequest
    /\ pc' = [pc EXCEPT ![r] = "sleep"]
    /\ refresh_status' = [refresh_status EXCEPT ![r] = OK]
    /\ refresh_ok' = refresh_ok + 1
    /\ UNCHANGED <<refresh_token, tries, max_tries, sent_token, window, rt_sent,
                   result, data, err>>
    /\ UNCHANGED <<h_token, h_calls, refresh_raised, refresh_calls,
                   refresh_failures, expected>>
    /\ UNCHANGED <<lock_waiters, cfgVars, extVars, cbVars, now>>

\* The token endpoint answers r's refresh call with a new pair:
\* _async_refresh_access_token stamps the time, stores both tokens and
\* notifies the listeners; the handler leaves the lock; backoff sleeps.
RefreshSucceed(r) ==
    /\ pc[r] = "refresh"
    /\ LET resp == TokenResponse(issued + 1)
           m == NotifyCallbacks([count |-> call_count, args |-> call_args],
                                refresh_token_callbacks, resp.refresh_token)
       IN /\ issued' = issued + 1
          /\ token_last_refreshed' = now
          /\ access_token' = resp.access_token
          /\ refresh_token' = resp.refresh_token
          /\ call_count' = m.count
          /\ call_args' = m.args
    /\ lock_owner' = NoRequest
    /\ pc' = [pc EXCEPT ![r] = "sleep"]
    /\ refresh_status' = [refresh_status EXCEPT ![r] = OK]
    /\ refresh_ok' = refresh_ok + 1
    /\ expected' = [c \in Callbacks |-> expected[c] + Live(c)]
    /\ UNCHANGED <<tries, max_tries, sent_token, window, rt_sent, result, data, err>>
    /\ UNCHANGED <<h_token, h_calls, refresh_raised, refresh_calls, refresh_failures>>
    /\ UNCHANGED <<lock_waiters, cfgVars, extVars, refresh_token_callbacks, handles, now>>

\* variant: the handler swallows the refresh error and backoff goes on
RefreshFail_swallowed(r, s) ==
    /\ pc[r] = "refresh"
    /\ s # OK
    /\ lock_owner' = NoRequest
    /\ pc' = [pc EXCEPT ![r] = "sleep"]
    /\ refresh_raised' = [refresh_raised EXCEPT ![r] = RefreshError(s)]
    /\ refresh_status' = [refresh_status EXCEPT ![r] = s]
    /\ refresh_failures' = refresh_failures + 1
    /\ UNCHANGED <<tries, max_tries, sent_token, window, rt_sent, result, data, err>>
    /\ UNCHANGED <<h_token, h_calls, refresh_calls, refresh_ok, expected>>
    /\ UNCHANGED <<apiVars, lock_waiters, cfgVars, extVars, cbVars, now, issued>>

\* variant: the listeners are notified although the refresh failed
RefreshFail_notifies(r, s) ==
    /\ pc[r] = "refresh"
    /\ s # OK
    /\ LET m == NotifyCallbacks([count |-> call_count, args |-> call_args],
                                refresh_token_callbacks, refresh_token)
       IN /\ call_count' = m.count
          /\ call_args' = m.args
    /\ lock_owner' = NoRequest
    /\ pc' = [pc EXCEPT ![r] = "done"]
    /\ result' = [result EXCEPT ![r] = RefreshError(s)]
    /\ refresh_raised' = [refresh_raised EXCEPT ![r] = RefreshError(s)]
    /\ refresh_status' = [refresh_status EXCEPT ![r] = s]
    /\ refresh_failures' = refresh_failures + 1
    /\ UNCHANGED <<tries, max_tries, sent_token, window, rt_sent, data, err>>
    /\ UNCHANGED <<h_token, h_calls, refresh_calls, refresh_ok, expected>>
    /\ UNCHANGED <<apiVars, lock_waiters, cfgVars, extVars, refresh_token_callbacks,
                   handles, now, issued>>

\* variant: the time is stamped before the answer is looked at
RefreshFail_stamps(r, s) ==
    /\ pc[r] = "refresh"
    /\ s # OK
    /\ token_last_refreshed' = now
    /\ lock_owner' = NoRequest
    /\ pc' = [pc EXCEPT ![r] = "done"]
    /\ result' = [result EXCEPT ![r] = RefreshError(s)]
    /\ refresh_raised' = [refresh_raised EXCEPT ![r] = RefreshError(s)]
    /\ refresh_status' = [refresh_status EXCEPT ![r] = s]
    /\ refresh_failures' = refresh_failures + 1
    /\ UNCHANGED <<tries, max_tries, sent_token, window, rt_sent, data, err>>
    /\ UNCHANGED <<h_token, h_calls, refresh_calls, refresh_ok, expected>>
    /\ UNCHANGED <<access_token, refresh_token, lock_waiters, cfgVars, extVars, cbVars,
                   now, issued>>

\* variant: after a refresh that failed for another reason than the
\* credentials, the request goes on with its next attempt
RefreshFail_goesOn(r, s) ==
    /\ pc[r] = "refresh"
    /\ s # OK
    /\ lock_owner' = NoRequest
    /\ IF IsAuthFailure(s)
       THEN /\ pc' = [pc EXCEPT ![r] = "done"]
            /\ result' = [result EXCEPT ![r] = RefreshError(s)]
       ELSE /\ pc' = [pc EXCEPT ![r] = "sleep"]
            /\ UNCHANGED result
    /\ refresh_raised' = [refresh_raised EXCEPT ![r] = RefreshError(s)]
    /\ refresh_status' = [refresh_status EXCEPT ![r] = s]
    /\ refresh_failures' = refresh_failures + 1
    /\ UNCHANGED <<tries, max_tries, sent_token, window, rt_sent, data, err>>
    /\ UNCHANGED <<h_token, h_calls, refresh_calls, refresh_ok, expected>>
    /\ UNCHANGED <<apiVars, lock_waiters, cfgVars, extVars, cbVars, now, issued>>

\* variant: the error leaves the handler with the lock still held
RefreshFail_keepsLock(r, s) ==
    /\ pc[r] = "refresh"
    /\ s # OK
    /\ pc' = [pc EXCEPT ![r] = "done"]
    /\ result' = [result EXCEPT ![r] = RefreshError(s)]
    /\ refresh_raised' = [refresh_raised EXCEPT ![r] = RefreshError(s)]
    /\ refresh_status' = [refresh_status EXCEPT ![r] = s]
    /\ refresh_failures' = refresh_failures + 1
    /\ UNCHANGED <<tries, max_tries, sent_token, window, rt_sent, data, err>>
    /\ UNCHANGED <<h_token, h_calls, refresh_calls, refresh_ok, expected>>
    /\ UNCHANGED <<apiVars, lockVars, cfgVars, extVars, cbVars, now, issued>>

\* The token endpoint answers r's refresh call with a non-2xx status:
\* _async_refresh_access_token raises, the lock is left, and the error
\* leaves backoff's retry loop through the handler.
RefreshFail(r, s) ==
    /\ pc[r] = "refresh"
    /\ s # OK
    /\ lock_owner' = NoRequest
    /\ pc' = [pc EXCEPT ![r] = "done"]
    /\ result' = [result EXCEPT ![r] = RefreshError(s)]
    /\ refresh_raised' = [refresh_raised EXCEPT ![r] = RefreshError(s)]
    /\ refresh_status' = [refresh_status EXCEPT ![r] = s]
    /\ refresh_failures' = refresh_failures + 1
    /\ UNCHANGED <<tries, max_tries, sent_token, window, rt_sent, data, err>>
    /\ UNCHANGED <<h_token, h_calls, refresh_calls, refresh_ok, expected>>
    /\ UNCHANGED <<apiVars, lock_waiters, cfgVars, extVars, cbVars, now, issued>>

\* variant: the retry is sent with the headers of the attempt before
Retry_stale(r) ==
    /\ pc[r] = "sleep"
    /\ pc' = [pc EXCEPT ![r] = "request"]
    /\ tries' = [tries EXCEPT ![r] = @ + 1]
    /\ UNCHANGED <<max_tries, sent_token, window, rt_sent, result, data, err>>
    /\ UNCHANGED <<apiVars, lockVars, cfgVars, extVars, cbVars, histVars, now, issued>>

\* asyncio.sleep(seconds) is over: backoff starts the next attempt, which
\* builds its headers from the access token stored now.  The length of the
\* sleep (backoff.expo with random jitter) is left open: any number of
\* clock steps may pass before this step.
Retry(r) ==
    /\ pc[r] = "sleep"
    /\ pc' = [pc EXCEPT ![r] = "request"]
    /\ tries' = [tries EXCEPT ![r] = @ + 1]
    /\ sent_token' = [sent_token EXCEPT ![r] = access_token]
    /\ UNCHANGED <<max_tries, window, rt_sent, result, data, err>>
    /\ UNCHANGED <<apiVars, lockVars, cfgVars, extVars, cbVars, histVars, now, issued>>

(***************************************************************************)
(* The rest of the API object's interface, and the environment.            *)
(***************************************************************************)

\* add_refresh_token_callback(callback) appends and returns remove()
AddCallback(callback) ==
    /\ Len(handles) < MaxRegistrations
    /\ refresh_token_callbacks' = Append(refresh_token_callbacks, callback)
    /\ handles' = Append(handles, [callback |-> callback, called |-> FALSE])
    /\ UNCHANGED <<call_count, call_args>>
    /\ UNCHANGED <<apiVars, lockVars, cfgVars, extVars, reqVars, histVars, now, issued>>

\* remove(), the handle that the h-th registration returned, called once
\* (a second call raises ValueError unless the callable is registered again)
RemoveCallback(h) ==
    /\ h \in DOMAIN handles
    /\ ~handles[h].called
    /\ refresh_token_callbacks' =
           RemoveFirst(refresh_token_callbacks, handles[h].callback)
    /\ handles' = [handles EXCEPT ![h].called = TRUE]
    /\ UNCHANGED <<call_count, call_args>>
    /\ UNCHANGED <<apiVars, lockVars, cfgVars, extVars, reqVars, histVars, now, issued>>

\* one second passes
Tick ==
    /\ now < MaxTime
    /\ now' = now + 1
    /\ UNCHANGED <<apiVars, lockVars, cfgVars, extVars, reqVars, cbVars, histVars, issued>>

\* Two callers of async_request run concurrently; no listener is registered.
Next ==
    \/ \E r \in Requests : Call(r)
    \/ \E r \in Requests : Succeed(r)
    \/ \E r \in Requests, s \in Statuses : GiveUp(r, s)
    \/ \E r \in Requests, s \in Statuses : BackoffOther(r, s)
    \/ \E r \in Requests, s \in Statuses : BackoffAuth(r, s)
    \/ \E r \in Requests : LockGranted(r)
    \/ \E r \in Requests : RefreshSucceed(r)
    \/ \E r \in Requests, s \in Statuses : RefreshFail(r, s)
    \/ \E r \in Requests : Retry(r)
    \/ Tick

Spec == Init /\ [][Next]_vars

\* One caller of async_request, while listeners are registered and removed.
NextListeners ==
    \/ Call(Caller)
    \/ Succeed(Caller)
    \/ \E s \in Statuses : GiveUp(Caller, s)
    \/ \E s \in Statuses : BackoffOther(Caller, s)
    \/ \E s \in Statuses : BackoffAuth(Caller, s)
    \/ RefreshSucceed(Caller)
    \/ \E s \in Statuses : RefreshFail(Caller, s)
    \/ Retry(Caller)
    \/ \E c \in Callbacks : AddCallback(c)
    \/ \E h \in 1..MaxRegistrations : RemoveCallback(h)
    \/ Tick

SpecListeners == Init /\ [][NextListeners]_vars

(***************************************************************************)
(* The retry switch, and answers that carry a plan restriction.            *)
(***************************************************************************)

\* variant: the wrapper is rebuilt with the configured number of tries
DisableRetries_configured ==
    /\ async_request' = request_retries
    /\ last_toggle' = "disable"
    /\ UNCHANGED <<request_retries, authVars, unavailable_status, respVars, wsVars, wsCbVars, auxVars>>
    /\ UNCHANGED <<apiVars, lockVars, reqVars, cbVars, histVars, now, issued>>

\* disable_request_retries(): self.async_request = _wrap_request_method(1);
\* a call already in flight keeps the wrapper it went through
DisableRetries ==
    /\ async_request' = 1
    /\ last_toggle' = "disable"
    /\ UNCHANGED <<request_retries, authVars, unavailable_status, respVars, wsVars, wsCbVars, auxVars>>
    /\ UNCHANGED <<apiVars, lockVars, reqVars, cbVars, histVars, now, issued>>

\* variant: the wrapper is rebuilt with the library's default number of tries
EnableRetries_default ==
    /\ async_request' = DEFAULT_REQUEST_RETRIES
    /\ last_toggle' = "enable"
    /\ UNCHANGED <<request_retries, authVars, unavailable_status, respVars, wsVars, wsCbVars, auxVars>>
    /\ UNCHANGED <<apiVars, lockVars, reqVars, cbVars, histVars, now, issued>>

\* enable_request_retries():
\* self.async_request = _wrap_request_method(self._request_retries)
EnableRetries ==
    /\ async_request' = request_retries
    /\ last_toggle' = "enable"
    /\ UNCHANGED <<request_retries, authVars, unavailable_status, respVars, wsVars, wsCbVars, auxVars>>
    /\ UNCHANGED <<apiVars, lockVars, reqVars, cbVars, histVars, now, issued>>

\* variant: the plan restriction is raised as an error that backoff catches
Unavailable_retried(r, s, b) ==
    /\ pc[r] = "request"
    /\ AsyncRequestOutcome(s, b).kind = "EndpointUnavailableError"
    /\ unavailable_status' = [unavailable_status EXCEPT ![r] = s]
    /\ IF MaxTriesExceeded(tries[r], max_tries[r])
       THEN /\ pc' = [pc EXCEPT ![r] = "done"]
            /\ result' = [result EXCEPT ![r] = "RequestError"]
       ELSE /\ pc' = [pc EXCEPT ![r] = "sleep"]
            /\ UNCHANGED result
    /\ UNCHANGED <<tries, max_tries, sent_token, window, rt_sent, data, err>>
    /\ UNCHANGED <<authVars, last_toggle, respVars, wsVars, wsCbVars, auxVars>>
    /\ UNCHANGED <<apiVars, lockVars, cfgVars, cbVars, histVars, now, issued>>

\* The attempt gets an answer with status s and body b in which
\* _async_request finds type == "NoRemoteManagement": it raises
\* EndpointUnavailableError, which backoff (on ClientResponseError only)
\* does not catch, so the error reaches the caller.
Unavailable(r, s, b) ==
    /\ pc[r] = "request"
    /\ AsyncRequestOutcome(s, b).kind = "EndpointUnavailableError"
    /\ unavailable_status' = [unavailable_status EXCEPT ![r] = s]
    /\ pc' = [pc EXCEPT ![r] = "done"]
    /\ result' = [result EXCEPT ![r] = "EndpointUnavailableError"]
    /\ UNCHANGED <<tries, max_tries, sent_token, window, rt_sent, data, err>>
    /\ UNCHANGED <<authVars, last_toggle, respVars, wsVars, wsCbVars, auxVars>>
    /\ UNCHANGED <<apiVars, lockVars, cfgVars, cbVars, histVars, now, issued>>

\* the steps of the caller's coroutine in the retry loop
CallerStep ==
    \/ Succeed(Caller)
    \/ \E s \in Statuses : GiveUp(Caller, s)
    \/ \E s \in Statuses : BackoffOther(Caller, s)
    \/ \E s \in Statuses : BackoffAuth(Caller, s)
    \/ RefreshSucceed(Caller)
    \/ \E s \in Statuses : RefreshFail(Caller, s)
    \/ Retry(Caller)

\* One caller of async_request, while the retry switch is used and answers
\* may carry a plan restriction.
NextEngine ==
    \/ Call(Caller)
    \/ CallerStep
    \/ \E s \in Statuses, b \in Bodies : Unavailable(Caller, s, b)
    \/ DisableRetries
    \/ EnableRetries
    \/ Tick

SpecEngine == Init /\ [][NextEngine]_vars

\* The event loop resumes a coroutine whose await is over: an answer (or
\* aiohttp's timeout) ends every HTTP call and asyncio.sleep returns.
FairSpecEngine == SpecEngine /\ WF_vars(CallerStep)

(***************************************************************************)
(* One response through API._async_request.                                *)
(***************************************************************************)
InitResponses ==
    /\ Constructed
    /\ Idle
    /\ NoEvents
    /\ response \in Responses
    /\ outcome = NoOutcome

\* _async_request reads the body and the status of the response
Receive ==
    /\ outcome = NoOutcome
    /\ outcome' = AsyncRequestOutcome(response.status, response.body)
    /\ UNCHANGED <<response, authVars, last_toggle, unavailable_status, wsVars, wsCbVars, auxVars>>
    /\ UNCHANGED <<apiVars, lockVars, cfgVars, reqVars, cbVars, histVars, now, issued>>

NextResponses == Receive

SpecResponses == InitResponses /\ [][NextResponses]_vars

(***************************************************************************)
(* Construction: API.async_from_auth and API.async_from_refresh_token.     *)
(***************************************************************************)

\* API.__init__ has run; the token endpoint may have issued a pair to an
\* earlier session, whose refresh token the caller has stored
InitNew ==
    /\ access_token = None
    /\ refresh_token = None
    /\ token_last_refreshed = NoTime
    /\ issued \in {0, 1}
    /\ auth_pc = "new"
    /\ grant = "none"
    /\ user_id = None
    /\ websocket = FALSE
    /\ token_calls = 0
    /\ authcheck_calls = 0
    /\ auth_status = 0
    /\ auth_result = "none"
    /\ auth_ok = 0
    /\ Idle
    /\ NoEvents
    /\ response = NoResponse
    /\ outcome = NoOutcome

\* async_from_auth: the object is built and the authorization-code grant
\* is sent through the unwrapped _async_request
FromAuth ==
    /\ auth_pc = "new"
    /\ auth_pc' = "token"
    /\ grant' = "authorization_code"
    /\ token_calls' = token_calls + 1
    /\ UNCHANGED <<user_id, websocket, authcheck_calls, auth_status, auth_result,
                   auth_ok>>
    /\ UNCHANGED <<last_toggle, unavailable_status, respVars, wsVars, wsCbVars, auxVars>>
    /\ UNCHANGED <<apiVars, lockVars, cfgVars, reqVars, cbVars, histVars, now, issued>>

\* variant: the stored token is also taken for the access token
FromRefreshToken_asAccess ==
    /\ auth_pc = "new"
    /\ issued >= 1
    /\ refresh_token' = TokenResponse(issued).refresh_token
    /\ access_token' = TokenResponse(issued).refresh_token
    /\ auth_pc' = "token"
    /\ grant' = "refresh_token"
    /\ token_calls' = token_calls + 1
    /\ UNCHANGED <<user_id, websocket, authcheck_calls, auth_status, auth_result,
                   auth_ok>>
    /\ UNCHANGED <<last_toggle, unavailable_status, respVars, wsVars, wsCbVars, auxVars>>
    /\ UNCHANGED <<token_last_refreshed, lockVars, cfgVars, reqVars, cbVars,
                   histVars, now, issued>>

\* async_from_refresh_token: the object is built, the caller's refresh token
\* is stored and _async_refresh_access_token sends the refresh grant
FromRefreshToken ==
    /\ auth_pc = "new"
    /\ issued >= 1
    /\ refresh_token' = TokenResponse(issued).refresh_token
    /\ auth_pc' = "token"
    /\ grant' = "refresh_token"
    /\ token_calls' = token_calls + 1
    /\ UNCHANGED <<user_id, websocket, authcheck_calls, auth_status, auth_result,
                   auth_ok>>
    /\ UNCHANGED <<last_toggle, unavailable_status, respVars, wsVars, wsCbVars, auxVars>>
    /\ UNCHANGED <<access_token, token_last_refreshed, lockVars, cfgVars, reqVars,
                   cbVars, histVars, now, issued>>

\* variant: the websocket client is built as soon as the tokens are stored
AuthCodeSucceed_early ==
    /\ auth_pc = "token"
    /\ grant = "authorization_code"
    /\ issued' = issued + 1
    /\ token_last_refreshed' = now
    /\ access_token' = TokenResponse(issued + 1).access_token
    /\ refresh_token' = TokenResponse(issued + 1).refresh_token
    /\ auth_status' = OK
    /\ auth_ok' = auth_ok + 1
    /\ websocket' = TRUE
    /\ authcheck_calls' = authcheck_calls + 1
    /\ auth_pc' = "authcheck"
    /\ UNCHANGED <<grant, user_id, token_calls, auth_result>>
    /\ UNCHANGED <<last_toggle, unavailable_status, respVars, wsVars, wsCbVars, auxVars>>
    /\ UNCHANGED <<lockVars, cfgVars, reqVars, cbVars, histVars, now>>

\* The token endpoint answers the authorization-code grant with a pair:
\* async_from_auth stamps the time and stores both tokens, then
\* _async_post_init sends api/authCheck.
AuthCodeSucceed ==
    /\ auth_pc = "token"
    /\ grant = "authorization_code"
    /\ issued' = issued + 1
    /\ token_last_refreshed' = now
    /\ access_token' = TokenResponse(issued + 1).access_token
    /\ refresh_token' = TokenResponse(issued + 1).refresh_token
    /\ auth_status' = OK
    /\ auth_ok' = auth_ok + 1
    /\ authcheck_calls' = authcheck_calls + 1
    /\ auth_pc' = "authcheck"
    /\ UNCHANGED <<grant, user_id, websocket, token_calls, auth_result>>
    /\ UNCHANGED <<last_toggle, unavailable_status, respVars, wsVars, wsCbVars, auxVars>>
    /\ UNCHANGED <<lockVars, cfgVars, reqVars, cbVars, histVars, now>>

\* The token endpoint answers the authorization-code grant with a non-2xx
\* status: async_from_auth raises.
AuthCodeFail(s) ==
    /\ auth_pc = "token"
    /\ grant = "authorization_code"
    /\ s # OK
    /\ auth_status' = s
    /\ auth_result' = AuthError(s)
    /\ auth_pc' = "failed"
    /\ UNCHANGED <<grant, user_id, websocket, token_calls, authcheck_calls, auth_ok>>
    /\ UNCHANGED <<last_toggle, unavailable_status, respVars, wsVars, wsCbVars, auxVars>>
    /\ UNCHANGED <<apiVars, lockVars, cfgVars, reqVars, cbVars, histVars, now, issued>>

\* The token endpoint answers the refresh grant with a pair:
\* _async_refresh_access_token stamps the time, stores both tokens and
\* notifies the listeners, then _async_post_init sends api/authCheck.
AuthRefreshSucceed ==
    /\ auth_pc = "token"
    /\ grant = "refresh_token"
    /\ LET token_resp == TokenResponse(issued + 1)
           m == NotifyCallbacks([count |-> call_count, args |-> call_args],
                                refresh_token_callbacks, token_resp.refresh_token)
       IN /\ issued' = issued + 1
          /\ token_last_refreshed' = now
          /\ access_token' = token_resp.access_token
          /\ refresh_token' = token_resp.refresh_token
          /\ call_count' = m.count
          /\ call_args' = m.args
    /\ auth_status' = OK
    /\ refresh_ok' = refresh_ok + 1
    /\ authcheck_calls' = authcheck_calls + 1
    /\ auth_pc' = "authcheck"
    /\ UNCHANGED <<grant, user_id, websocket, token_calls, auth_result, auth_ok>>
    /\ UNCHANGED <<last_toggle, unavailable_status, respVars, wsVars, wsCbVars, auxVars>>
    /\ UNCHANGED <<h_token, h_calls, refresh_status, refresh_raised, refresh_calls,
                   refresh_failures, expected>>
    /\ UNCHANGED <<lockVars, cfgVars, reqVars, refresh_token_callbacks, handles, now>>

\* The token endpoint answers the refresh grant with a non-2xx status:
\* _async_refresh_access_token raises, and so does the factory.
AuthRefreshFail(s) ==
    /\ auth_pc = "token"
    /\ grant = "refresh_token"
    /\ s # OK
    /\ auth_status' = s
    /\ auth_result' = RefreshError(s)
    /\ refresh_failures' = refresh_failures + 1
    /\ auth_pc' = "failed"
    /\ UNCHANGED <<grant, user_id, websocket, token_calls, authcheck_calls, auth_ok>>
    /\ UNCHANGED <<last_toggle, unavailable_status, respVars, wsVars, wsCbVars, auxVars>>
    /\ UNCHANGED <<h_token, h_calls, refresh_status, refresh_raised, refresh_calls,
                   refresh_ok, expected>>
    /\ UNCHANGED <<apiVars, lockVars, cfgVars, reqVars, cbVars, now, issued>>

\* api/authCheck answers {userId}: _async_post_init stores the user id and
\* builds the websocket client; the factory returns the object.
AuthCheckSucceed ==
    /\ auth_pc = "authcheck"
    /\ user_id' = UserId
    /\ websocket' = TRUE
    /\ auth_result' = "ok"
    /\ auth_pc' = "ready"
    /\ UNCHANGED <<grant, token_calls, authcheck_calls, auth_status, auth_ok>>
    /\ UNCHANGED <<last_toggle, unavailable_status, respVars, wsVars, wsCbVars, auxVars>>
    /\ UNCHANGED <<apiVars, lockVars, cfgVars, reqVars, cbVars, histVars, now, issued>>

\* api/authCheck answers a non-2xx status: the ClientResponseError of the
\* unwrapped _async_request leaves the factory as it is.
AuthCheckFail(s) ==
    /\ auth_pc = "authcheck"
    /\ s # OK
    /\ auth_result' = "ClientResponseError"
    /\ auth_pc' = "failed"
    /\ UNCHANGED <<grant, user_id, websocket, token_calls, authcheck_calls,
                   auth_status, auth_ok>>
    /\ UNCHANGED <<last_toggle, unavailable_status, respVars, wsVars, wsCbVars, auxVars>>
    /\ UNCHANGED <<apiVars, lockVars, cfgVars, reqVars, cbVars, histVars, now, issued>>

\* the factory has returned the API object
Ready == auth_pc = "ready"

\* The factory runs; once it has returned the object, one caller uses
\* async_request.
NextAuth ==
    \/ FromAuth
    \/ FromRefreshToken
    \/ AuthCodeSucceed
    \/ \E s \in Statuses : AuthCodeFail(s)
    \/ AuthRefreshSucceed
    \/ \E s \in Statuses : AuthRefreshFail(s)
    \/ AuthCheckSucceed
    \/ \E s \in Statuses : AuthCheckFail(s)
    \/ Ready /\ Call(Caller)
    \/ Ready /\ CallerStep
    \/ Tick

SpecAuth == InitNew /\ [][NextAuth]_vars

(***************************************************************************)
(* The websocket client (simplipy/websocket.py).  async_connect opens the  *)
(* connection, identifies, and then runs the listen loop until the loop    *)
(* ends; it keeps the connection in self._client, which every later        *)
(* statement reads again.  aiohttp's ClientWebSocketResponse is modelled  *)
(* by what receive() and close() do to a connection.                       *)
(***************************************************************************)

\* WebsocketClient.connected
Connected == ws_client # NoConnection /\ ~ws_conns[ws_client].closed

\* the connection that session.ws_connect returns
NewConnection ==
    [closed |-> FALSE, closing |-> FALSE, waiting |-> "none", fed |-> FALSE,
     sent |-> <<>>, received |-> 0]

\* the message built in async_connect for _async_send_json
IdentifyMessage(token, uid) ==
    [type |-> "com.simplisafe.connection.identify", token |-> token, join |-> uid]

\* except ServerDisconnectedError / except (ClientError, WSServerHandshakeError)
ConnectError(e) ==
    IF e = "ServerDisconnectedError" THEN "ConnectionClosedError"
    ELSE "CannotConnectError"

\* variant: the payload is decoded before the frame type is looked at
AsyncReceiveJson_jsonFirst(msg) ==
    IF msg.payload = "invalid" THEN "InvalidMessageError"
    ELSE IF msg.type \in {"CLOSE", "CLOSED", "CLOSING"} THEN "ConnectionClosedError"
    ELSE IF msg.type = "ERROR" THEN "ConnectionFailedError"
    ELSE IF msg.type # "TEXT" THEN "InvalidMessageError"
    ELSE "return"

\* _async_receive_json, after receive() returned msg: the error raised, or
\* "return" when the decoded payload is returned
AsyncReceiveJson(msg) ==
    IF msg.type \in {"CLOSE", "CLOSED", "CLOSING"} THEN "ConnectionClosedError"
    ELSE IF msg.type = "ERROR" THEN "ConnectionFailedError"
    ELSE IF msg.type # "TEXT" THEN "InvalidMessageError"
    ELSE IF msg.payload = "invalid" THEN "InvalidMessageError"
    ELSE "return"

\* except ConnectionClosedError: pass
Swallowed(error) == error = "ConnectionClosedError"

\* variant: every decoded payload is taken for an event
BuildsEvent_any(msg) == TRUE

\* _parse_response_payload builds a WebsocketEvent for an event envelope
BuildsEvent(msg) == msg.payload = "event"

\* aiohttp: what receive() does to the connection before it returns a frame
\* (a CLOSE frame is answered by closing; CLOSED and ERROR are returned
\* once the connection is closed)
Received(conn, msg) ==
    [conn EXCEPT !.waiting = "none",
                 !.fed = FALSE,
                 !.received = @ + 1,
                 !.closing = @ \/ msg.type \in {"CLOSE", "CLOSING", "ERROR"},
                 !.closed = @ \/ msg.type \in {"CLOSE", "CLOSED", "ERROR"}]

\* variant: close() closes the connection and leaves a pending receive()
\* waiting
CloseCall_noWake(p, j, cs, res) ==
    /\ ws_result' = [ws_result EXCEPT ![p] = res]
    /\ ws_conn_of' = [ws_conn_of EXCEPT ![p] = j]
    /\ ws_conns' = [cs EXCEPT ![j].closed = TRUE]
    /\ ws_pc' = [ws_pc EXCEPT ![p] = "done"]

\* await self._client.close(), called by p on connection j, after which p
\* ends with res.  aiohttp: a pending receive() is first woken with a
\* CLOSING frame and awaited; otherwise the connection is closed at once.
CloseCall(p, j, cs, res) ==
    /\ ws_result' = [ws_result EXCEPT ![p] = res]
    /\ ws_conn_of' = [ws_conn_of EXCEPT ![p] = j]
    /\ IF cs[j].closed
       THEN /\ ws_conns' = cs
            /\ ws_pc' = [ws_pc EXCEPT ![p] = "done"]
       ELSE IF cs[j].waiting # "none"
       THEN /\ ws_conns' = [cs EXCEPT ![j].fed = TRUE]
            /\ ws_pc' = [ws_pc EXCEPT ![p] = "closing"]
       ELSE /\ ws_conns' = [cs EXCEPT ![j].closed = TRUE]
            /\ ws_pc' = [ws_pc EXCEPT ![p] = "done"]

\* finally: if not self._client.closed: await self._client.close()
Finally(c, j, cs, res) == CloseCall(c, j, cs, res)

\* while not self._client.closed: msg = await self._async_receive_json(),
\* up to the await of receive() on connection j (the client's connection
\* now).  aiohttp: receive() raises RuntimeError when another receive() is
\* pending, and returns CLOSED at once on a closing connection.
Listen(c, j, cs) ==
    IF cs[j].closed THEN Finally(c, j, cs, "returned")
    ELSE IF cs[j].waiting # "none" THEN Finally(c, j, cs, "RuntimeError")
    ELSE IF cs[j].closing
    THEN Finally(c, j, [cs EXCEPT ![j].closed = TRUE], "returned")
    ELSE /\ ws_conns' = [cs EXCEPT ![j].waiting = c]
         /\ ws_pc' = [ws_pc EXCEPT ![c] = "receive"]
         /\ ws_conn_of' = [ws_conn_of EXCEPT ![c] = j]
         /\ UNCHANGED ws_result

\* the variables of the API object and of its requests
apiCore == <<apiVars, lockVars, cfgVars, reqVars, cbVars, histVars, issued,
             authVars, last_toggle, unavailable_status, respVars>>

\* everything outside the websocket client
apiSide == <<apiCore, now, auxVars>>

\* async_connect is called: it awaits session.ws_connect
WsConnect(c) ==
    /\ ws_pc[c] = "idle"
    /\ ws_pc' = [ws_pc EXCEPT ![c] = "connecting"]
    /\ ws_was_connected' = [ws_was_connected EXCEPT ![c] =
           IF Connected THEN "yes" ELSE "no"]
    /\ UNCHANGED <<ws_client, ws_conns, ws_conn_of, ws_result, ws_connect_error,
                   ws_last_frame, ws_parsed, ws_events>>
    /\ UNCHANGED <<apiSide, wsCbVars>>

\* session.ws_connect raises e: async_connect raises what the except
\* clauses make of it; self._client is left as it was
WsConnectFail(c, e) ==
    /\ ws_pc[c] = "connecting"
    /\ ws_pc' = [ws_pc EXCEPT ![c] = "done"]
    /\ ws_connect_error' = [ws_connect_error EXCEPT ![c] = e]
    /\ ws_result' = [ws_result EXCEPT ![c] = ConnectError(e)]
    /\ UNCHANGED <<ws_client, ws_conns, ws_conn_of, ws_last_frame, ws_parsed,
                   ws_events, ws_was_connected>>
    /\ UNCHANGED <<apiSide, wsCbVars>>

\* session.ws_connect returns a connection: it is stored in self._client,
\* the identification message is sent with the API object's access token
\* and user id, and the listen loop awaits its first frame
Opened(c) ==
    /\ ws_pc[c] = "connecting"
    /\ LET j == Len(ws_conns) + 1
           conn == [NewConnection EXCEPT
                      !.sent = <<IdentifyMessage(access_token, user_id)>>]
       IN /\ ws_client' = j
          /\ Listen(c, j, Append(ws_conns, conn))
    /\ UNCHANGED <<ws_connect_error, ws_last_frame, ws_parsed, ws_events,
                   ws_was_connected>>
    /\ UNCHANGED apiSide

\* variant: a failed send leaves the connection open
WsIdentifyFail_leaks(c) ==
    /\ ws_pc[c] = "connecting"
    /\ ws_client' = Len(ws_conns) + 1
    /\ ws_conns' = Append(ws_conns, NewConnection)
    /\ ws_pc' = [ws_pc EXCEPT ![c] = "done"]
    /\ ws_conn_of' = [ws_conn_of EXCEPT ![c] = Len(ws_conns) + 1]
    /\ ws_result' = [ws_result EXCEPT ![c] = "ConnectionResetError"]
    /\ UNCHANGED <<ws_connect_error, ws_last_frame, ws_parsed, ws_events,
                   ws_was_connected>>
    /\ UNCHANGED <<apiSide, wsCbVars>>

\* session.ws_connect returns a connection, which is stored in
\* self._client, but sending the identification message fails (aiohttp
\* raises ConnectionResetError when the transport is closing): the finally
\* clause closes the connection and the error leaves async_connect
WsIdentifyFail(c) ==
    /\ ws_pc[c] = "connecting"
    /\ LET j == Len(ws_conns) + 1
       IN /\ ws_client' = j
          /\ Finally(c, j, Append(ws_conns, NewConnection), "ConnectionResetError")
    /\ UNCHANGED <<ws_connect_error, ws_last_frame, ws_parsed, ws_events,
                   ws_was_connected>>
    /\ UNCHANGED <<apiSide, wsCbVars>>

\* variant: the listen loop starts without the identification message
WsOpened_silent(c) ==
    /\ ws_pc[c] = "connecting"
    /\ LET j == Len(ws_conns) + 1
       IN /\ ws_client' = j
          /\ Listen(c, j, Append(ws_conns, NewConnection))
    /\ UNCHANGED <<ws_connect_error, ws_last_frame, ws_parsed, ws_events,
                   ws_was_connected>>
    /\ UNCHANGED <<apiSide, wsCbVars>>

\* async_connect after ws_connect returned: nothing else happens
WsOpened(c) == Opened(c) /\ UNCHANGED wsCbVars

\* The receive() that c awaits returns the frame msg.  A decoded payload
\* goes to _parse_response_payload and the loop awaits the next frame on
\* the client's connection; ConnectionClosedError ends the loop silently,
\* any other error leaves async_connect; in every case the finally clause
\* closes the client's connection.
Frame(c, msg) ==
    /\ ws_pc[c] = "receive"
    /\ LET i == ws_conn_of[c]
           out == AsyncReceiveJson(msg)
           cs == [ws_conns EXCEPT ![i] = Received(@, msg)]
       IN /\ ws_conns[i].waiting = c
          /\ (msg.type = "CLOSING") <=> ws_conns[i].fed
          /\ ws_conns[i].received < MaxFrames \/ ws_conns[i].fed
          /\ ws_last_frame' = [ws_last_frame EXCEPT ![c] = msg]
          /\ IF out = "return"
             THEN /\ ws_parsed' = [ws_parsed EXCEPT ![c] = @ + 1]
                  /\ ws_events' = [ws_events EXCEPT ![c] =
                                      IF BuildsEvent(msg) THEN @ + 1 ELSE @]
                  /\ Listen(c, ws_client, cs)
             ELSE /\ UNCHANGED <<ws_parsed, ws_events>>
                  /\ Finally(c, ws_client, cs,
                             IF Swallowed(out) THEN "returned" ELSE out)
    /\ UNCHANGED <<ws_client, ws_connect_error, ws_was_connected>>
    /\ UNCHANGED apiSide

\* variant: an ERROR frame ends the loop like a close frame
WsFrame_errorSwallowed(c, msg) ==
    /\ ws_pc[c] = "receive"
    /\ LET i == ws_conn_of[c]
           out == AsyncReceiveJson(msg)
           cs == [ws_conns EXCEPT ![i] = Received(@, msg)]
       IN /\ ws_conns[i].waiting = c
          /\ (msg.type = "CLOSING") <=> ws_conns[i].fed
          /\ ws_conns[i].received < MaxFrames \/ ws_conns[i].fed
          /\ ws_last_frame' = [ws_last_frame EXCEPT ![c] = msg]
          /\ IF out = "return"
             THEN /\ ws_parsed' = [ws_parsed EXCEPT ![c] = @ + 1]
                  /\ ws_events' = [ws_events EXCEPT ![c] =
                                      IF BuildsEvent(msg) THEN @ + 1 ELSE @]
                  /\ Listen(c, ws_client, cs)
             ELSE /\ UNCHANGED <<ws_parsed, ws_events>>
                  /\ Finally(c, ws_client, cs,
                             IF Swallowed(out) \/ out = "ConnectionFailedError"
                             THEN "returned" ELSE out)
    /\ UNCHANGED <<ws_client, ws_connect_error, ws_was_connected>>
    /\ UNCHANGED <<apiSide, wsCbVars>>

\* variant: a frame that ends the loop is still given to the parser
WsFrame_parsesAll(c, msg) ==
    /\ ws_pc[c] = "receive"
    /\ LET i == ws_conn_of[c]
           out == AsyncReceiveJson(msg)
           cs == [ws_conns EXCEPT ![i] = Received(@, msg)]
       IN /\ ws_conns[i].waiting = c
          /\ (msg.type = "CLOSING") <=> ws_conns[i].fed
          /\ ws_conns[i].received < MaxFrames \/ ws_conns[i].fed
          /\ ws_last_frame' = [ws_last_frame EXCEPT ![c] = msg]
          /\ ws_parsed' = [ws_parsed EXCEPT ![c] = @ + 1]
          /\ ws_events' = [ws_events EXCEPT ![c] =
                              IF BuildsEvent(msg) THEN @ + 1 ELSE @]
          /\ IF out = "return"
             THEN Listen(c, ws_client, cs)
             ELSE Finally(c, ws_client, cs,
                          IF Swallowed(out) THEN "returned" ELSE out)
    /\ UNCHANGED <<ws_client, ws_connect_error, ws_was_connected>>
    /\ UNCHANGED <<apiSide, wsCbVars>>

\* a frame in the listen loop of async_connect: _parse_response_payload
\* prints the event, nothing else happens
WsFrame(c, msg) == Frame(c, msg) /\ UNCHANGED wsCbVars

\* the receive() that a close() call woke has returned: close() goes on
\* and closes the connection unless it is closed by now
WsCloseResume(p) ==
    /\ ws_pc[p] = "closing"
    /\ ~ws_conns[ws_conn_of[p]].fed
    /\ ws_pc' = [ws_pc EXCEPT ![p] = "done"]
    /\ ws_conns' = [ws_conns EXCEPT ![ws_conn_of[p]].closed = TRUE]
    /\ UNCHANGED <<ws_client, ws_conn_of, ws_result, ws_connect_error,
                   ws_last_frame, ws_parsed, ws_events, ws_was_connected>>
    /\ UNCHANGED <<apiSide, wsCbVars>>

\* variant: the connection is closed without a look at its state
WsDisconnect_always(d) ==
    /\ ws_pc[d] = "idle"
    /\ ws_was_connected' = [ws_was_connected EXCEPT ![d] =
           IF ~Connected THEN "no"
           ELSE IF ws_conns[ws_client].waiting # "none"
           THEN ws_conns[ws_client].waiting ELSE "yes"]
    /\ IF ws_client = NoConnection
       THEN /\ ws_pc' = [ws_pc EXCEPT ![d] = "done"]
            /\ ws_result' = [ws_result EXCEPT ![d] = "AttributeError"]
            /\ UNCHANGED <<ws_conns, ws_conn_of>>
       ELSE CloseCall(d, ws_client, ws_conns, "returned")
    /\ UNCHANGED <<ws_client, ws_connect_error, ws_last_frame, ws_parsed, ws_events>>
    /\ UNCHANGED <<apiSide, wsCbVars>>

\* async_disconnect is called: it returns at once unless the client is
\* connected, and closes the client's connection otherwise
WsDisconnect(d) ==
    /\ ws_pc[d] = "idle"
    /\ ws_was_connected' = [ws_was_connected EXCEPT ![d] =
           IF ~Connected THEN "no"
           ELSE IF ws_conns[ws_client].waiting # "none"
           THEN ws_conns[ws_client].waiting ELSE "yes"]
    /\ IF ~Connected
       THEN /\ ws_pc' = [ws_pc EXCEPT ![d] = "done"]
            /\ ws_result' = [ws_result EXCEPT ![d] = "returned"]
            /\ UNCHANGED <<ws_conns, ws_conn_of>>
       ELSE CloseCall(d, ws_client, ws_conns, "returned")
    /\ UNCHANGED <<ws_client, ws_connect_error, ws_last_frame, ws_parsed, ws_events>>
    /\ UNCHANGED <<apiSide, wsCbVars>>

\* async_connect and async_disconnect are each called up to twice, in any
\* order and also while another call is suspended.
NextWs ==
    \/ \E c \in Connects : WsConnect(c)
    \/ \E c \in Connects, e \in ConnectErrors : WsConnectFail(c, e)
    \/ \E c \in Connects : WsOpened(c)
    \/ \E c \in Connects : WsIdentifyFail(c)
    \/ \E c \in Connects, msg \in Frames : WsFrame(c, msg)
    \/ \E p \in WsCalls : WsCloseResume(p)
    \/ \E d \in Disconnects : WsDisconnect(d)

SpecWs == Init /\ [][NextWs]_vars

\* One call of async_connect, while one caller uses async_request and the
\* token may be refreshed.
NextWsRefresh ==
    \/ WsConnect(Listener)
    \/ WsOpened(Listener)
    \/ \E msg \in Frames : WsFrame(Listener, msg)
    \/ Call(Caller)
    \/ CallerStep
    \/ Tick

SpecWsRefresh == Init /\ [][NextWsRefresh]_vars

(***************************************************************************)
(* The websocket client's callback registries: add_connect_callback and    *)
(* add_event_callback register a callback and return the handle that      *)
(* removes it; every connect invokes the connect callbacks, every decoded  *)
(* event the event callbacks with the WebsocketEvent.                      *)
(***************************************************************************)

\* what a connect callback is called with
NoArguments == "()"

\* websocket_event_from_payload(payload), as an event callback's argument
WebsocketEventOf(msg) == "WebsocketEvent"

\* number of registrations of callback cb of kind k whose handle was not
\* called yet
LiveWs(k, cb) ==
    Cardinality({h \in DOMAIN ws_handles :
                    /\ ws_handles[h].kind = k
                    /\ ws_handles[h].callback = cb
                    /\ ~ws_handles[h].called})

\* add_connect_callback(callback) / add_event_callback(callback)
WsAddCallback(k, callback) ==
    /\ Len(ws_handles) < MaxRegistrations
    /\ ws_callbacks' = [ws_callbacks EXCEPT ![k] = Append(@, callback)]
    /\ ws_handles' = Append(ws_handles,
                            [kind |-> k, callback |-> callback, called |-> FALSE])
    /\ UNCHANGED <<ws_calls, wsVars, apiSide>>

\* variant: the handle leaves the callback registered
WsRemoveCallback_kept(h) ==
    /\ h \in DOMAIN ws_handles
    /\ ~ws_handles[h].called
    /\ ws_handles' = [ws_handles EXCEPT ![h].called = TRUE]
    /\ UNCHANGED <<ws_callbacks, ws_calls, wsVars, apiSide>>

\* the handle that the h-th registration returned is called
WsRemoveCallback(h) ==
    /\ h \in DOMAIN ws_handles
    /\ ~ws_handles[h].called
    /\ ws_callbacks' = [ws_callbacks EXCEPT ![ws_handles[h].kind] =
                           RemoveFirst(@, ws_handles[h].callback)]
    /\ ws_handles' = [ws_handles EXCEPT ![h].called = TRUE]
    /\ UNCHANGED <<ws_calls, wsVars, apiSide>>

\* connect: the connection is opened and identified, and every registered
\* connect callback is invoked
WsOpenedNotify(c) ==
    /\ Opened(c)
    /\ ws_calls' = [ws_calls EXCEPT !["connect"] =
                       NotifyCallbacks(@, ws_callbacks["connect"], NoArguments)]
    /\ UNCHANGED <<ws_callbacks, ws_handles>>

\* listen: a frame is received; an event decoded from it is given to every
\* registered event callback
WsFrameNotify(c, msg) ==
    /\ Frame(c, msg)
    /\ ws_calls' = [ws_calls EXCEPT !["event"] =
                       IF AsyncReceiveJson(msg) = "return" /\ BuildsEvent(msg)
                       THEN NotifyCallbacks(@, ws_callbacks["event"],
                                            WebsocketEventOf(msg))
                       ELSE @]
    /\ UNCHANGED <<ws_callbacks, ws_handles>>

\* One client: callbacks are registered and removed at any time, the client
\* connects, listens, and is disconnected.
NextWsCallbacks ==
    \/ \E k \in CallbackKinds, cb \in Callbacks : WsAddCallback(k, cb)
    \/ \E h \in 1..MaxRegistrations : WsRemoveCallback(h)
    \/ WsConnect(Listener)
    \/ WsOpenedNotify(Listener)
    \/ \E msg \in Frames : WsFrameNotify(Listener, msg)
    \/ WsDisconnect("d1")
    \/ \E p \in {Listener, "d1"} : WsCloseResume(p)

SpecWsCallbacks == Init /\ [][NextWsCallbacks]_vars

(***************************************************************************)
(* Properties.                                                             *)
(***************************************************************************)

\* C1: when concurrent requests each receive a 401/403 while the stored
\* token is stale, their backoff handlers together issue at most one
\* refresh call (as long as no refresh fails): for every access token, at
\* most one refresh call is issued by the handlers that saw that token
\* rejected, also when a handler waited on the refresh lock while another
\* request's refresh call was in flight.
C1_AtMostOneRefreshCall ==
    refresh_failures = 0 => \A g \in TokenIds : refresh_calls[g] <= 1

\* C2: when concurrent requests hit an authentication failure and one of
\* them refreshes successfully, the others do not refresh: a request issues
\* a refresh call only while the tokens its handler saw rejected are still
\* the stored ones, and its retry carries an access token at least as new
\* as the one a refresh installed meanwhile.
C2_OthersDoNotRefresh ==
    \A r \in Requests :
        /\ (h_calls[r] = 1 => rt_sent[r] = h_token[r])
        /\ (pc[r] = "request" /\ h_token[r] # 0 => sent_token[r] >= h_token[r])

\* C3: a request whose 401/403 is handled less than
\* DEFAULT_TOKEN_EXPIRATION_WINDOW seconds after the last completed refresh
\* issues no refresh call (its handler returns without calling the token
\* endpoint), and the attempt that follows carries the access token stored
\* when it starts.
C3_FreshWindowSkipsRefresh ==
    /\ [](\A r \in Requests :
            (h_token[r] # 0 /\ window[r] < 5)
                => (h_calls[r] = 0 /\ pc[r] # "refresh"))
    /\ [][\A r \in Requests :
            (pc[r] = "sleep" /\ pc'[r] = "request")
                => sent_token'[r] = access_token]_vars

\* a request that never refreshed handled its 401/403 within the window
\* after another request's refresh, and is retrying with the current token
C3_Witness ==
    \E r \in Requests :
        /\ h_token[r] >= 2
        /\ window[r] < 5
        /\ refresh_status[r] = 0
        /\ pc[r] = "request"
        /\ tries[r] >= 2
        /\ sent_token[r] = access_token

\* sum of f[1..n]
RECURSIVE SumTo(_, _)
SumTo(f, n) == IF n = 0 THEN 0 ELSE f[n] + SumTo(f, n - 1)

\* C4: when the token endpoint answers a refresh call with 401 or 403, the
\* refresh ends with InvalidCredentialsError after exactly one call of the
\* token endpoint; no refresh call is ever repeated: every call issued has
\* one answer or is the one in flight.
C4_RefreshNeverRetried ==
    /\ \A r \in Requests :
            refresh_status[r] \in {401, 403}
                => (refresh_raised[r] = "InvalidCredentialsError"
                    /\ h_calls[r] = 1)
    /\ SumTo(refresh_calls, MaxTokens)
         = refresh_ok + refresh_failures
           + Cardinality({r \in Requests : pc[r] = "refresh"})

\* a refresh was answered 403 on the first try of a request allowed
\* MaxRetries tries
C4_Witness ==
    \E r \in Requests :
        /\ refresh_status[r] = 403
        /\ refresh_raised[r] = "InvalidCredentialsError"
        /\ max_tries[r] = MaxRetries
        /\ tries[r] = 1

\* C5: when the refresh a request triggered fails with
\* InvalidCredentialsError, the request ends at once with
\* InvalidCredentialsError: it makes no further attempt although attempts
\* remain in its budget.
C5_InvalidCredentialsEndsRequest ==
    \A r \in Requests :
        refresh_raised[r] = "InvalidCredentialsError"
            => /\ pc[r] = "done"
               /\ result[r] = "InvalidCredentialsError"
               /\ tries[r] < max_tries[r]

\* a request ended with InvalidCredentialsError with two tries left
C5_Witness ==
    \E r \in Requests :
        /\ pc[r] = "done"
        /\ result[r] = "InvalidCredentialsError"
        /\ tries[r] + 2 <= max_tries[r]

\* C6: a failed refresh leaves access_token, refresh_token and the
\* last-refreshed timestamp as they were; the three change only in a step
\* that completes a successful token exchange.
C6_FailedRefreshLeavesTokens ==
    [][/\ (refresh_failures' # refresh_failures
              => UNCHANGED <<access_token, refresh_token, token_last_refreshed>>)
       /\ ((\/ access_token' # access_token
            \/ refresh_token' # refresh_token
            \/ token_last_refreshed' # token_last_refreshed)
              => refresh_ok' = refresh_ok + 1)]_vars

\* a refresh was answered 409 at a time when a stamp would have shown, and
\* the first token pair and its timestamp are still stored
C6_Witness ==
    /\ \E r \in Requests : refresh_status[r] = 409
    /\ refresh_ok = 0
    /\ access_token = 1
    /\ refresh_token = 1
    /\ token_last_refreshed = 0
    /\ now >= 5

\* C7: a successful refresh replaces both tokens in one step: in every
\* state the two tokens come from the same token response, and the step
\* that changes one changes the other and stamps the time.
C7_TokensReplacedTogether ==
    /\ [](\E n \in TokenIds :
            /\ access_token = TokenResponse(n).access_token
            /\ refresh_token = TokenResponse(n).refresh_token)
    /\ [][(access_token' # access_token \/ refresh_token' # refresh_token)
            => /\ access_token' # access_token
               /\ refresh_token' # refresh_token
               /\ token_last_refreshed' = now]_vars

\* a request that was in flight across a refresh observes the new pair
C7_Witness ==
    /\ access_token >= 2
    /\ refresh_token = access_token
    /\ token_last_refreshed >= 5
    /\ \E r \in Requests :
        /\ pc[r] \in {"request", "lock_wait"}
        /\ sent_token[r] < access_token

C9_RefreshThenRetryEndToEnd ==
    /\ \A r \in Requests :
          (pc[r] = "done" /\ result[r] = "ok" /\ refresh_status[r] = OK)
             => /\ tries[r] >= 2
                /\ data[r] = tries[r]
                /\ access_token = TokenResponse(issued).access_token
                /\ refresh_token = TokenResponse(issued).refresh_token
    /\ \A c \in Callbacks :
          /\ call_count[c] = expected[c]
          /\ call_count[c] <= refresh_ok * MaxRegistrations
          /\ (refresh_ok = 1 /\ call_count[c] > 0
                 => call_args[c] = refresh_token)

\* 401, refresh, 2xx on the second attempt, with one listener invoked once
C9_Witness ==
    /\ pc[Caller] = "done"
    /\ result[Caller] = "ok"
    /\ refresh_status[Caller] = OK
    /\ tries[Caller] = 2
    /\ data[Caller] = 2
    /\ refresh_ok = 1
    /\ access_token = 2
    /\ refresh_token = 2
    /\ call_count["cb1"] = 1
    /\ call_args["cb1"] = 2

\* C10: after the de-registration handle of a registration has been called,
\* that registration is gone from the list: a listener with no registration
\* left is not invoked by any later refresh, and every listener still
\* registered is invoked by each successful refresh.
C10_RemovedListenerNotInvoked ==
    /\ [](\A c \in Callbacks : Count(refresh_token_callbacks, c) = Live(c))
    /\ [][\A c \in Callbacks :
            /\ (Live(c) = 0 => call_count'[c] = call_count[c])
            /\ (refresh_ok' = refresh_ok + 1 /\ Live(c) > 0
                   => call_count'[c] = call_count[c] + Live(c))]_vars

\* the first registration was removed before a refresh that invoked the
\* listener registered second
C10_Witness ==
    /\ Len(handles) = 2
    /\ handles[1].called
    /\ ~handles[2].called
    /\ handles[1].callback # handles[2].callback
    /\ call_count[handles[1].callback] = 0
    /\ call_count[handles[2].callback] >= 1

\* C11: once disable_request_retries() has been called, a call of
\* async_request goes through a wrapper with max_tries = 1; a call with
\* max_tries = 1 makes exactly one HTTP call, never sleeps or refreshes,
\* and when that call is answered with an error status other than 401/403
\* it ends with RequestError.
C11_DisabledRetriesSingleCall ==
    /\ [](\A r \in Requests :
            (max_tries[r] = 1 /\ pc[r] # "idle") =>
                /\ tries[r] = 1
                /\ pc[r] \in {"request", "done"}
                /\ h_calls[r] = 0
                /\ refresh_status[r] = 0
                /\ (pc[r] = "done" /\ err[r] \notin {0, 401, 403})
                       => result[r] = "RequestError")
    /\ [][\A r \in Requests :
            (last_toggle = "disable" /\ pc[r] = "idle" /\ pc'[r] = "request")
                => max_tries'[r] = 1]_vars

C11_Witness ==
    /\ request_retries > 1
    /\ last_toggle = "disable"
    /\ max_tries[Caller] = 1
    /\ pc[Caller] = "done"
    /\ tries[Caller] = 1
    /\ err[Caller] = 409
    /\ result[Caller] = "RequestError"

C13_AttemptsBounded ==
    /\ [](\A r \in Requests :
            /\ tries[r] <= max_tries[r]
            /\ (pc[r] = "done" /\ tries[r] = max_tries[r]
                   /\ result[r] \notin {"ok", "EndpointUnavailableError"})
                  => (result[r] = "RequestError" /\ err[r] # 0
                         /\ refresh_raised[r] = "none"))
    /\ [][\A r \in Requests :
            /\ pc[r] # "idle" => max_tries'[r] = max_tries[r]
            /\ pc[r] \in {"refresh", "lock_wait"} => tries'[r] = tries[r]
            /\ tries'[r] \in {tries[r], tries[r] + 1}
            /\ (pc[r] = "request" /\ tries[r] = max_tries[r]
                   /\ err'[r] # err[r])
                  => (pc'[r] = "done" /\ result'[r] = "RequestError")]_vars
    /\ \A r \in Requests : (pc[r] = "request") ~> (pc[r] = "done")

C13_Witness ==
    /\ pc[Caller] = "done"
    /\ result[Caller] = "RequestError"
    /\ max_tries[Caller] = 3
    /\ tries[Caller] = 3
    /\ refresh_status[Caller] = OK
    /\ err[Caller] = 409

\* C14: an answer in which _async_request finds type == "NoRemoteManagement"
\* ends the request with EndpointUnavailableError in the same step, whatever
\* its status (401 and 403 included): the attempt counter, the tokens, the
\* lock and the refresh calls are left alone, and on a first attempt the
\* request ends after one call.
C14_UnavailableNotRetried ==
    /\ [](\A r \in Requests :
            unavailable_status[r] # 0 =>
                /\ pc[r] = "done"
                /\ result[r] = "EndpointUnavailableError"
                /\ (err[r] = 0 => tries[r] = 1))
    /\ [][\A r \in Requests :
            unavailable_status'[r] # unavailable_status[r] =>
                /\ pc'[r] = "done"
                /\ result'[r] = "EndpointUnavailableError"
                /\ UNCHANGED <<tries, apiVars, lockVars, refresh_calls,
                               refresh_ok, refresh_failures, h_calls>>]_vars

C14_Witness ==
    /\ unavailable_status[Caller] = 403
    /\ max_tries[Caller] = 3
    /\ tries[Caller] = 1
    /\ pc[Caller] = "done"
    /\ result[Caller] = "EndpointUnavailableError"
    /\ now >= DEFAULT_TOKEN_EXPIRATION_WINDOW

\* the JSON string literal that encodes s
RECURSIVE Escape(_)
Escape(s) ==
    IF s = <<>> THEN <<>>
    ELSE (IF Head(s) \in {Quote, Backslash} THEN <<Backslash, Head(s)>>
          ELSE <<Head(s)>>) \o Escape(Tail(s))

JSONEncode(s) == <<Quote>> \o Escape(s) \o <<Quote>>

\* the strings whose JSON encoding is one of the modelled body texts
EncodableStrings == {s \in Texts : JSONEncode(s) \in Texts}

\* C15 as stated: for every status, a body that is the JSON encoding of a
\* string s gives the same outcome (returned value or error kind, status)
\* as the object {"error": s}.
C15_StringLikeErrorObject ==
    \A s \in EncodableStrings :
        (outcome # NoOutcome /\ response.body = TextBody(JSONEncode(s)))
            => outcome = AsyncRequestOutcome(response.status, ObjectBody("none", s))

\* C15 amended: for every status, a body that is the JSON encoding of a
\* string s gives the same error kind (hence the same retry and refresh
\* behaviour) as the object {"error": s}; when a value is returned it is
\* {"error": s'} with s' the characters of s that are not double quotes,
\* which is the value returned for {"error": s} when s has no double quote.
C15_StringLikeStrippedErrorObject ==
    \A s \in EncodableStrings :
        (outcome # NoOutcome /\ response.body = TextBody(JSONEncode(s))) =>
            LET obj == AsyncRequestOutcome(response.status, ObjectBody("none", s))
                stripped == SelectSeq(s, LAMBDA c : c # Quote)
            IN /\ outcome.kind = obj.kind
               /\ outcome.status = obj.status
               /\ outcome.kind = "return" =>
                      outcome.data = [type |-> "none", error |-> stripped]
               /\ (outcome.kind = "return" /\ stripped = s) => outcome = obj

C15_Witness ==
    /\ outcome.kind = "return"
    /\ response.body = TextBody(JSONEncode(<<Quote>>))
    /\ outcome.data.error = <<>>

\* C16: enable_request_retries() binds async_request to a wrapper with the
\* request_retries given at construction and disable_request_retries() to
\* one with a single try; request_retries itself never changes, and a step
\* that switches leaves the tokens, the refresh timestamp, user_id and the
\* registered listeners alone.
C16_EnableRestoresRetries ==
    /\ [](/\ last_toggle = "enable" => async_request = request_retries
          /\ last_toggle = "disable" => async_request = 1
          /\ last_toggle = "none" => async_request = request_retries)
    /\ [][/\ request_retries' = request_retries
          /\ (last_toggle' # last_toggle \/ async_request' # async_request)
                => UNCHANGED <<apiVars, user_id, websocket,
                               refresh_token_callbacks>>]_vars

C16_Witness ==
    /\ last_toggle = "enable"
    /\ request_retries = 3
    /\ async_request = 3
    /\ max_tries[Caller] = 1
    /\ pc[Caller] = "done"

\* C17: the access token is present exactly when a token exchange
\* (authorization-code grant, or refresh) has completed successfully on the
\* object.
C17_AccessTokenIffExchanged ==
    (access_token # None) <=> (auth_ok + refresh_ok > 0)

C17_Witness ==
    /\ grant = "refresh_token"
    /\ access_token # None
    /\ auth_ok = 0
    /\ refresh_ok = 2
    /\ auth_pc = "ready"

\* C18: whenever an attempt of a request starts (the first one, or a retry
\* after the sleep), it is sent with the access token stored at that
\* moment, which is the one the most recent completed token exchange
\* installed, whichever request did that refresh.
C18_AttemptCarriesCurrentToken ==
    [][\A r \in Requests :
          (pc[r] \in {"idle", "sleep"} /\ pc'[r] = "request") =>
              /\ sent_token'[r] = access_token
              /\ sent_token'[r] = TokenResponse(issued).access_token]_vars

C18_Witness ==
    /\ pc["r2"] = "request"
    /\ tries["r2"] = 2
    /\ refresh_status["r2"] = 0
    /\ refresh_status["r1"] = OK
    /\ sent_token["r2"] = TokenResponse(2).access_token

\* C19: when a factory returns the object, its tokens are the pair the
\* token endpoint answered, api/authCheck was called exactly once and the
\* token endpoint once; api/authCheck is only called after the exchange
\* succeeded and the tokens were stored; user_id and the websocket client
\* are only set once api/authCheck has answered.
C19_ConstructionOrder ==
    /\ [](/\ auth_pc = "ready" =>
                (authcheck_calls = 1 /\ token_calls = 1 /\ user_id = UserId
                    /\ websocket /\ auth_status = OK)
          /\ authcheck_calls <= 1
          /\ authcheck_calls > 0 =>
                (auth_status = OK /\ access_token # None /\ refresh_token # None)
          /\ (user_id # None \/ websocket) => auth_pc = "ready")
    /\ [][(auth_pc # "ready" /\ auth_pc' = "ready") =>
              /\ access_token' = TokenResponse(issued).access_token
              /\ refresh_token' = TokenResponse(issued).refresh_token
              /\ UNCHANGED <<apiVars, issued>>]_vars

C19_Witness ==
    /\ auth_pc = "ready"
    /\ grant = "authorization_code"
    /\ access_token = TokenResponse(2).access_token
    /\ refresh_token = TokenResponse(2).refresh_token
    /\ pc[Caller] = "idle"

\* C20: a factory calls the token endpoint at most once, whatever
\* request_retries is; when the endpoint answers 401 or 403 the factory
\* raises InvalidCredentialsError, on any other error status RequestError,
\* and in both cases api/authCheck is not called and nothing is stored.
C20_InitialAuthFailure ==
    /\ token_calls <= 1
    /\ auth_status \notin {0, OK} =>
          /\ auth_pc = "failed"
          /\ token_calls = 1
          /\ authcheck_calls = 0
          /\ access_token = None
          /\ user_id = None
          /\ auth_result = (IF auth_status \in {401, 403}
                            THEN "InvalidCredentialsError" ELSE "RequestError")

C20_Witness ==
    /\ request_retries = 3
    /\ grant = "authorization_code"
    /\ auth_status = 403
    /\ auth_result = "InvalidCredentialsError"
    /\ token_calls = 1
    /\ authcheck_calls = 0

(***************************************************************************)
(* The websocket client.                                                   *)
(***************************************************************************)

\* C21: async_connect raises CannotConnectError for every transport-level
\* failure while the connection is opened (server disconnection during the
\* handshake, websocket handshake failure, any other client error), and the
\* failed call has opened no connection.
C21_ConnectFailureIsCannotConnect ==
    \A c \in Connects :
        ws_connect_error[c] # "none" =>
            /\ ws_pc[c] = "done"
            /\ ws_result[c] = "CannotConnectError"
            /\ ws_conn_of[c] = NoConnection

\* C22: async_connect called on a connected client is a no-op: it opens no
\* connection and sends no identification message, and the connection the
\* client had stays the client's.
C22_ConnectWhenConnectedIsNoOp ==
    \A c \in Connects :
        ws_was_connected[c] = "yes" =>
            /\ ws_conn_of[c] = NoConnection
            /\ \A i \in 1..Len(ws_conns) : ~ws_conns[i].closed => ws_client = i

\* a step in which the receive() that c awaits returns a frame
FrameReturned(c) ==
    /\ ws_pc[c] = "receive"
    /\ ws_conns'[ws_conn_of[c]].received = ws_conns[ws_conn_of[c]].received + 1

CloseTypes == {"CLOSE", "CLOSED", "CLOSING"}

\* C23: when the listen loop receives a CLOSE, CLOSED or CLOSING frame it
\* ends without raising: async_connect returns, the frame is not given to
\* the parser and no event is built from it.
C23_CloseFrameEndsLoopQuietly ==
    [][\A c \in Connects :
          (FrameReturned(c) /\ ws_last_frame'[c].type \in CloseTypes) =>
              /\ ws_pc'[c] \in {"done", "closing"}
              /\ ws_result'[c] = "returned"
              /\ ws_parsed'[c] = ws_parsed[c]
              /\ ws_events'[c] = ws_events[c]]_vars

C23_Witness ==
    /\ ws_pc["k1"] = "done"
    /\ ws_result["k1"] = "returned"
    /\ ws_last_frame["k1"] = [type |-> "CLOSE", payload |-> "event"]
    /\ ws_events["k1"] = 0
    /\ ws_conns[1].closed

\* C24: when the listen loop receives an ERROR frame, ConnectionFailedError
\* leaves async_connect (it is not swallowed like a close), and no event is
\* built from the frame.
C24_ErrorFrameRaisesConnectionFailed ==
    [][\A c \in Connects :
          (FrameReturned(c) /\ ws_last_frame'[c].type = "ERROR") =>
              /\ ws_pc'[c] \in {"done", "closing"}
              /\ ws_result'[c] = "ConnectionFailedError"
              /\ ws_parsed'[c] = ws_parsed[c]
              /\ ws_events'[c] = ws_events[c]]_vars

C24_Witness ==
    /\ ws_pc["k1"] = "done"
    /\ ws_result["k1"] = "ConnectionFailedError"
    /\ ws_last_frame["k1"] = [type |-> "ERROR", payload |-> "event"]
    /\ ws_events["k1"] = 0

\* C25: a frame that is neither of a close type, ERROR nor TEXT, and a TEXT
\* frame whose payload is not JSON, raise InvalidMessageError.  The checks
\* come in the order close, error, non-text, JSON: a close or ERROR frame
\* has the outcome of its type whatever its payload, and only a TEXT frame
\* with a JSON payload reaches the parser.
C25_InvalidFrameRaisesInvalidMessage ==
    [][\A c \in Connects :
          FrameReturned(c) =>
              LET msg == ws_last_frame'[c]
                  invalid == /\ msg.type \notin CloseTypes \cup {"ERROR"}
                             /\ msg.type # "TEXT" \/ msg.payload = "invalid"
              IN /\ invalid => /\ ws_result'[c] = "InvalidMessageError"
                               /\ ws_parsed'[c] = ws_parsed[c]
                 /\ msg.type \in CloseTypes => ws_result'[c] = "returned"
                 /\ msg.type = "ERROR" => ws_result'[c] = "ConnectionFailedError"
                 /\ ws_result'[c] = "InvalidMessageError" => invalid
                 /\ ws_parsed'[c] # ws_parsed[c] =>
                        msg.type = "TEXT" /\ msg.payload # "invalid"]_vars

C25_Witness ==
    /\ ws_pc["k1"] = "done"
    /\ ws_result["k1"] = "InvalidMessageError"
    /\ ws_result["k2"] = "InvalidMessageError"
    /\ ws_last_frame["k1"] = [type |-> "BINARY", payload |-> "event"]
    /\ ws_last_frame["k2"] = [type |-> "TEXT", payload |-> "invalid"]

\* C26: async_disconnect returns without raising.  Called on a connected
\* client it closes the client's connection, which is closed when the call
\* returns; called on a client that is not connected (never connected, or
\* its connection closed already) it touches nothing.
C26_DisconnectClosesOrDoesNothing ==
    /\ [](\A d \in Disconnects :
            ws_pc[d] = "done" =>
                /\ ws_result[d] = "returned"
                /\ ws_was_connected[d] = "no" => ws_conn_of[d] = NoConnection
                /\ ws_was_connected[d] # "no" =>
                       /\ ws_conn_of[d] # NoConnection
                       /\ ws_conns[ws_conn_of[d]].closed)
    /\ [][\A d \in Disconnects :
            (ws_pc[d] = "idle" /\ ws_pc'[d] # "idle") =>
                IF Connected
                THEN /\ ws_conn_of'[d] = ws_client
                     /\ \/ ws_conns'[ws_client].closed
                        \/ ws_pc'[d] = "closing" /\ ws_conns'[ws_client].fed
                ELSE /\ ws_pc'[d] = "done"
                     /\ ws_conns' = ws_conns
                     /\ ws_client' = ws_client]_vars

\* one disconnect after a CLOSE frame closed the connection, the other
\* while the next connection is open
C26_Witness ==
    /\ ws_pc["d1"] = "done" /\ ws_was_connected["d1"] = "no"
    /\ ws_last_frame["k1"].type = "CLOSE"
    /\ ws_conns[1].closed
    /\ ws_pc["d2"] = "done" /\ ws_was_connected["d2"] = "k2"
    /\ ws_client = 2
    /\ ~Connected

\* C29: a disconnect that finds the listen loop waiting in receive() wakes
\* that receive: when the disconnect has returned, the loop has ended
\* without raising and the connection is closed, so that connected is false
\* for it.
C29_DisconnectUnblocksReceive ==
    \A d \in Disconnects :
        (ws_pc[d] = "done" /\ ws_was_connected[d] \in Connects) =>
            LET c == ws_was_connected[d]
            IN /\ ws_pc[c] \in {"done", "closing"}
               /\ ws_result[c] = "returned"
               /\ ws_last_frame[c].type = "CLOSING"
               /\ ws_conns[ws_conn_of[d]].closed
               /\ ws_conns[ws_conn_of[d]].waiting = "none"
               /\ ws_client = ws_conn_of[d] => ~Connected

C29_Witness ==
    /\ ws_pc["d1"] = "done"
    /\ ws_was_connected["d1"] = "k1"
    /\ ws_pc["k1"] = "done"
    /\ ws_result["k1"] = "returned"
    /\ ws_parsed["k1"] = 1
    /\ ws_pc["k2"] = "idle"
    /\ ~Connected

\* a step in which session.ws_connect returns a connection to c
ConnectionOpened(c) ==
    /\ ws_pc[c] = "connecting"
    /\ Len(ws_conns') = Len(ws_conns) + 1

\* C27: once the connection is open, the first message sent on it is the
\* identification message, and it is sent before any frame is received; it
\* carries the access token and the user id that the API object has at that
\* moment.
C27_IdentifyFirst ==
    /\ [](\A i \in 1..Len(ws_conns) :
             /\ ws_conns[i].sent # <<>>
             /\ ws_conns[i].sent[1].type = "com.simplisafe.connection.identify")
    /\ [][\A c \in Connects :
             ConnectionOpened(c) =>
                 LET conn == ws_conns'[Len(ws_conns')]
                 IN /\ conn.received = 0
                    /\ conn.sent = <<IdentifyMessage(access_token, user_id)>>
                    /\ conn.sent[1].token = access_token'
                    /\ ws_client' = Len(ws_conns')]_vars

\* the connection was opened after a token refresh and has received a frame
C27_Witness ==
    /\ ws_client = 1
    /\ ws_conns[1].sent = <<IdentifyMessage(TokenResponse(2).access_token, UserId)>>
    /\ access_token = TokenResponse(2).access_token
    /\ ws_conns[1].received = 1
    /\ ws_parsed[Listener] = 1

\* C28: after the access token is refreshed while the websocket is
\* connected, the stream uses the new token: every frame the listen loop
\* receives arrives on a connection whose latest identification message
\* carries the API object's current access token.
C28_StreamUsesRefreshedToken ==
    [][\A c \in Connects :
          FrameReturned(c) =>
              LET conn == ws_conns[ws_conn_of[c]]
              IN conn.sent[Len(conn.sent)].token = access_token]_vars

\* C30: every callback registered with add_connect_callback and not
\* de-registered is invoked once by a connect, every callback registered
\* with add_event_callback and not de-registered is invoked once, with the
\* decoded WebsocketEvent, for every decoded event; a callback whose
\* de-registration handle was called before is not invoked, and nothing
\* else invokes a callback.
C30_CallbacksInvokedOncePerConnectAndEvent ==
    [][LET connect == ConnectionOpened(Listener)
           event == FrameReturned(Listener) /\ ws_events' # ws_events
       IN \A cb \in Callbacks :
             /\ ws_calls'["connect"].count[cb] =
                    ws_calls["connect"].count[cb]
                        + (IF connect THEN LiveWs("connect", cb) ELSE 0)
             /\ ws_calls'["event"].count[cb] =
                    ws_calls["event"].count[cb]
                        + (IF event THEN LiveWs("event", cb) ELSE 0)
             /\ (event /\ LiveWs("event", cb) > 0) =>
                    ws_calls'["event"].args[cb] = "WebsocketEvent"]_vars

\* cb1 was registered for events and was called with the event; cb2 was
\* registered for connects and removed before the connect
C30_Witness ==
    /\ Len(ws_handles) = 2
    /\ ws_handles[1] = [kind |-> "connect", callback |-> "cb2", called |-> TRUE]
    /\ ws_handles[2] = [kind |-> "event", callback |-> "cb1", called |-> FALSE]
    /\ ws_events[Listener] = 1
    /\ ws_calls["event"].count["cb1"] = 1
    /\ ws_calls["event"].args["cb1"] = "WebsocketEvent"
    /\ ws_calls["connect"].count["cb2"] = 0
    /\ ws_calls["event"].count["cb2"] = 0

(***************************************************************************)
(* The request engine: the last attempt, failed refreshes and the lock.    *)
(***************************************************************************)

\* an attempt of r ends the request with an error status (a plan
\* restriction, which is no HTTP error to the retry loop, aside)
EndsOnError(r) ==
    /\ pc[r] = "request"
    /\ pc'[r] = "done"
    /\ result'[r] \notin {"ok", "EndpointUnavailableError"}

\* C36: a 401/403 answered to the last permitted attempt of a request (the
\* only attempt when retries are disabled) starts no token refresh: the
\* request ends with RequestError in that step, the tokens, the lock and
\* the refresh calls are left alone; a request that refreshes, waits for the
\* lock or sleeps has attempts left.
C36_AuthFailureOnLastAttempt ==
    /\ [](\A r \in Requests :
            pc[r] \in {"refresh", "lock_wait", "sleep"} => tries[r] < max_tries[r])
    /\ [][\A r \in Requests :
            /\ (EndsOnError(r) /\ err'[r] \in {401, 403}) =>
                  /\ tries[r] = max_tries[r]
                  /\ result'[r] = "RequestError"
                  /\ UNCHANGED <<apiVars, lockVars, issued, refresh_calls, refresh_ok,
                                 refresh_failures, h_calls, tries>>
            /\ (pc[r] = "request" /\ tries[r] = max_tries[r] /\ pc'[r] # "request")
                  => pc'[r] = "done"]_vars

\* retries are disabled, the only attempt was answered 401 at a time when a
\* refresh would have been due
C36_Witness ==
    /\ last_toggle = "disable"
    /\ request_retries = 3
    /\ pc[Caller] = "done"
    /\ tries[Caller] = 1
    /\ err[Caller] = 401
    /\ result[Caller] = "RequestError"
    /\ now >= DEFAULT_TOKEN_EXPIRATION_WINDOW
    /\ refresh_ok = 0
    /\ refresh_failures = 0
    /\ access_token = TokenResponse(1).access_token

\* C37: when the token endpoint answers a request's refresh call with an
\* error status other than 401/403, the request ends in that step with
\* RequestError: it makes no further attempt although attempts remain, and
\* the refresh call is not repeated.
C37_RefreshRequestErrorEndsRequest ==
    /\ [](\A r \in Requests :
            refresh_status[r] \notin {0, OK, 401, 403} =>
                /\ refresh_raised[r] = "RequestError"
                /\ pc[r] = "done"
                /\ result[r] = "RequestError"
                /\ tries[r] < max_tries[r]
                /\ h_calls[r] = 1)
    /\ [][\A r \in Requests :
            (pc[r] = "refresh" /\ refresh_failures' # refresh_failures
                 /\ pc'[r] # "refresh") =>
                /\ pc'[r] = "done"
                /\ UNCHANGED <<tries, refresh_calls, apiVars>>]_vars

\* a refresh was answered 409 on the first try of a request allowed
\* MaxRetries tries
C37_Witness ==
    \E r \in Requests :
        /\ refresh_status[r] = 409
        /\ err[r] = 401
        /\ pc[r] = "done"
        /\ result[r] = "RequestError"
        /\ max_tries[r] = MaxRetries
        /\ tries[r] = 1

\* C38: the refresh lock is held only by a request whose refresh call is in
\* flight: every way out of the critical section (skip, success,
\* InvalidCredentialsError, RequestError) releases it.  So a request waiting
\* on the lock waits either for a refresh call that is in flight or for its
\* own turn, and a request can refresh after another one's refresh failed.
C38_LockAlwaysReleased ==
    /\ [](/\ lock_owner # NoRequest => pc[lock_owner] = "refresh"
          /\ \A r \in Requests :
                /\ pc[r] = "refresh" => lock_owner = r
                /\ pc[r] = "lock_wait" <=>
                       (\E i \in 1..Len(lock_waiters) : lock_waiters[i] = r)
          /\ lock_waiters # <<>> =>
                \/ lock_owner # NoRequest
                \/ ENABLED LockGranted(Head(lock_waiters)))
    /\ [][\A r \in Requests :
            (pc[r] = "refresh" /\ pc'[r] # "refresh") =>
                /\ lock_owner = r
                /\ lock_owner' # r
                /\ lock_waiters' = lock_waiters]_vars

\* r1's refresh failed with InvalidCredentialsError while r2 waited on the
\* lock, and r2's own refresh call is in flight
C38_Witness ==
    /\ refresh_raised["r1"] = "InvalidCredentialsError"
    /\ pc["r1"] = "done"
    /\ h_token["r2"] # 0
    /\ window["r2"] >= DEFAULT_TOKEN_EXPIRATION_WINDOW
    /\ pc["r2"] = "refresh"
    /\ lock_owner = "r2"
    /\ refresh_failures = 1

\* C39: a refresh call sends the refresh token stored when it starts, which
\* is the one of the latest token pair issued; while the call is in flight
\* the stored token does not change, so a refresh token that a successful
\* refresh replaced is never sent again.
C39_RefreshSendsStoredToken ==
    /\ [](/\ refresh_token = TokenResponse(issued).refresh_token
          /\ \A r \in Requests :
                /\ pc[r] = "refresh" => rt_sent[r] = refresh_token
                /\ rt_sent[r] <= refresh_token)
    /\ [][\A r \in Requests :
            (pc[r] # "refresh" /\ pc'[r] = "refresh") =>
                /\ rt_sent'[r] = refresh_token
                /\ refresh_token' = refresh_token]_vars

\* r2 saw token 1 rejected, waited for r1's refresh and sends token 2
C39_Witness ==
    /\ refresh_ok = 1
    /\ h_token["r2"] = TokenResponse(1).access_token
    /\ refresh_token = TokenResponse(2).refresh_token
    /\ pc["r2"] = "refresh"
    /\ rt_sent["r2"] = TokenResponse(2).refresh_token
    /\ rt_sent["r1"] = TokenResponse(1).refresh_token

(***************************************************************************)
(* The websocket client: envelopes and the end of the listen loop.         *)
(***************************************************************************)

\* C35: only an envelope of the standard event type is decoded into a
\* WebsocketEvent.  A TEXT frame with an envelope of another type reaches
\* the parser, builds no event and raises nothing, and the loop goes on
\* with the next receive on the client's connection.
C35_OnlyStandardEventsDecoded ==
    [][\A c \in Connects :
          FrameReturned(c) =>
              LET msg == ws_last_frame'[c]
                  j == ws_client
              IN /\ ws_events'[c] # ws_events[c] =>
                        /\ msg = [type |-> "TEXT", payload |-> "event"]
                        /\ ws_events'[c] = ws_events[c] + 1
                 /\ msg = [type |-> "TEXT", payload |-> "event"] =>
                        ws_events'[c] = ws_events[c] + 1
                 /\ msg = [type |-> "TEXT", payload |-> "other"] =>
                        /\ ws_parsed'[c] = ws_parsed[c] + 1
                        /\ ws_events'[c] = ws_events[c]
                        /\ ws_result'[c] \notin {"InvalidMessageError",
                                                 "ConnectionFailedError"}
                        /\ (j = ws_conn_of[c] /\ ~ws_conns[j].closing
                                              /\ ~ws_conns[j].closed) =>
                              /\ ws_pc'[c] = "receive"
                              /\ ws_conns'[j].waiting = c
                              /\ ws_result'[c] = "none"]_vars

\* an acknowledgement was received and the loop waits for the next frame
C35_Witness ==
    /\ ws_last_frame["k1"] = [type |-> "TEXT", payload |-> "other"]
    /\ ws_parsed["k1"] = 1
    /\ ws_events["k1"] = 0
    /\ ws_pc["k1"] = "receive"
    /\ ws_result["k1"] = "none"
    /\ Connected

\* C40: when a call of async_connect that opened a connection ends (by a
\* close frame, an ERROR frame, an invalid message or a failed
\* identification send), the client's connection is closed at that moment,
\* so that connected is false; the call has opened one connection and opens
\* no other.
C40_LoopEndClosesConnection ==
    /\ [](Len(ws_conns) <=
             Cardinality({c \in Connects :
                             ws_pc[c] \in {"receive", "closing", "done"}}))
    /\ [][\A c \in Connects :
             (ws_pc[c] # "done" /\ ws_pc'[c] = "done"
                  /\ ws_connect_error'[c] = "none") =>
                 /\ ws_conn_of'[c] # NoConnection
                 /\ ws_conns'[ws_conn_of'[c]].closed
                 /\ ws_client' = ws_conn_of'[c]
                 /\ ~Connected'
                 /\ Len(ws_conns') <= Len(ws_conns) + 1]_vars

\* one call ended by an invalid message, the other by a failed
\* identification send
C40_Witness ==
    /\ ws_pc["k1"] = "done"
    /\ ws_result["k1"] = "InvalidMessageError"
    /\ ws_conns[1].closed
    /\ ws_pc["k2"] = "done"
    /\ ws_result["k2"] = "ConnectionResetError"
    /\ ws_conns[2].sent = <<>>
    /\ ws_conns[2].closed
    /\ ~Connected

(***************************************************************************)
(* Setting the state of a system or of a lock: System._set_state of the    *)
(* two system versions and Lock._set_lock_state.  One call runs at a time; *)
(* it is suspended in API.request until the server answers or the request  *)
(* raises.                                                                 *)
(***************************************************************************)

\* the members of the SystemStates enumeration (system.py declares unknown
\* with the value of off; the members are told apart here by name, as
\* SystemStates[...] and value.name do)
SystemStates == {"away", "entry_delay", "exit_delay", "home", "off", "unknown"}

\* the members of the LockStates enumeration
LockStates == {"unlocked", "locked"}

\* the states a caller can ask for
SettableStates == SystemStates \ {"entry_delay", "exit_delay", "unknown"}

\* the raw states the server answers with; the last one is not a member
RawStates == {"away", "exit_delay", "home", "off", "alarm_test"}

\* the member named by a raw value; a raw value that names none is unknown
coerce_state_from_raw_value(raw) ==
    IF raw \in SystemStates THEN raw ELSE "unknown"

\* the variant stores the requested value before the request is sent
SetState_optimistic(version, value) ==
    /\ dev_pc = "idle"
    /\ dev_pc' = "request"
    /\ dev_call' = [kind |-> version, value |-> value]
    /\ dev_before' = <<sys_state, door_state>>
    /\ dev_result' = "none"
    /\ sys_state' = value
    /\ UNCHANGED door_state
    /\ UNCHANGED <<apiCore, now, wsVars, wsCbVars, evVars, wdVars>>

\* SystemV2._set_state / SystemV3._set_state is called and awaits the request
SetState(version, value) ==
    /\ dev_pc = "idle"
    /\ dev_pc' = "request"
    /\ dev_call' = [kind |-> version, value |-> value]
    /\ dev_before' = <<sys_state, door_state>>
    /\ dev_result' = "none"
    /\ UNCHANGED <<sys_state, door_state>>
    /\ UNCHANGED <<apiCore, now, wsVars, wsCbVars, evVars, wdVars>>

\* Lock._set_lock_state is called and awaits the request
SetLockState(state) ==
    /\ dev_pc = "idle"
    /\ dev_pc' = "request"
    /\ dev_call' = [kind |-> "lock", value |-> state]
    /\ dev_before' = <<sys_state, door_state>>
    /\ dev_result' = "none"
    /\ UNCHANGED <<sys_state, door_state>>
    /\ UNCHANGED <<apiCore, now, wsVars, wsCbVars, evVars, wdVars>>

\* the request returns the server's answer: SystemV3 stores the state it
\* names, SystemV2 stores it when the answer says success, Lock stores
\* nothing
StateResponse(success, raw) ==
    /\ dev_pc = "request"
    /\ dev_pc' = "idle"
    /\ dev_result' = "ok"
    /\ sys_state' = CASE dev_call.kind = "v3" -> coerce_state_from_raw_value(raw)
                      [] dev_call.kind = "v2" /\ success ->
                             coerce_state_from_raw_value(raw)
                      [] OTHER -> sys_state
    /\ UNCHANGED <<door_state, dev_call, dev_before>>
    /\ UNCHANGED <<apiCore, now, wsVars, wsCbVars, evVars, wdVars>>

\* the request raises: the error leaves the method at the await
StateRequestError ==
    /\ dev_pc = "request"
    /\ dev_pc' = "idle"
    /\ dev_result' = "error"
    /\ UNCHANGED <<sys_state, door_state, dev_call, dev_before>>
    /\ UNCHANGED <<apiCore, now, wsVars, wsCbVars, evVars, wdVars>>

NextDevices ==
    \/ \E version \in {"v2", "v3"}, value \in SettableStates :
          SetState(version, value)
    \/ \E state \in LockStates : SetLockState(state)
    \/ \E success \in BOOLEAN, raw \in RawStates : StateResponse(success, raw)
    \/ StateRequestError

SpecDevices == Init /\ [][NextDevices]_vars

\* C34: when a state-setting call of a system or of a lock ends in an
\* error, System._state and Lock._state are what they were when the call
\* started; and either of them changes only in the step in which the
\* request returns the server's answer.
C34_NoStateChangeOnFailure ==
    /\ [](dev_pc = "idle" /\ dev_result = "error"
            => <<sys_state, door_state>> = dev_before)
    /\ [][<<sys_state, door_state>>' # <<sys_state, door_state>>
            => dev_pc = "request" /\ dev_result' = "ok"]_vars

\* a call that asked for "away" failed on a system that an earlier call
\* had set to "home", and a call to unlock the lock failed
C34_Witness ==
    /\ dev_pc = "idle"
    /\ dev_result = "error"
    /\ dev_call \in {[kind |-> "v3", value |-> "away"],
                     [kind |-> "lock", value |-> "unlocked"]}
    /\ sys_state = "home"
    /\ dev_before = <<"home", "locked">>

(***************************************************************************)
(* Decoding a websocket event: websocket_event_from_payload makes a        *)
(* WebsocketEvent, whose __post_init__ looks the event code up in          *)
(* EVENT_MAPPING and the sensor type in DeviceTypes.  None is written      *)
(* "None" in the fields of the event, which otherwise hold names.          *)
(***************************************************************************)

\* the code -> category table
EVENT_MAPPING ==
    (1110 :> "alarm_triggered")
    @@ (1120 :> "alarm_triggered")
    @@ (1132 :> "alarm_triggered")
    @@ (1134 :> "alarm_triggered")
    @@ (1154 :> "alarm_triggered")
    @@ (1159 :> "alarm_triggered")
    @@ (1162 :> "alarm_triggered")
    @@ (1170 :> "camera_motion_detected")
    @@ (1301 :> "power_outage")
    @@ (1350 :> "connection_lost")
    @@ (1381 :> "sensor_not_responding")
    @@ (1400 :> "disarmed_by_master_pin")
    @@ (1406 :> "alarm_canceled")
    @@ (1407 :> "disarmed_by_remote")
    @@ (1409 :> "secret_alert_triggered")
    @@ (1429 :> "entry_delay")
    @@ (1458 :> "doorbell_detected")
    @@ (1531 :> "sensor_paired_and_named")
    @@ (1601 :> "user_initiated_test")
    @@ (1602 :> "automatic_test")
    @@ (1604 :> "entity_test")
    @@ (3301 :> "power_restored")
    @@ (3350 :> "connection_restored")
    @@ (3381 :> "sensor_restored")
    @@ (3401 :> "armed_away_by_keypad")
    @@ (3407 :> "armed_away_by_remote")
    @@ (3441 :> "armed_home")
    @@ (3481 :> "armed_away")
    @@ (3487 :> "armed_away")
    @@ (3491 :> "armed_home")
    @@ (9401 :> "away_exit_delay_by_keypad")
    @@ (9407 :> "away_exit_delay_by_remote")
    @@ (9441 :> "home_exit_delay")
    @@ (9700 :> "lock_unlocked")
    @@ (9701 :> "lock_locked")
    @@ (9703 :> "lock_error")

\* the members of the DeviceTypes enumeration that the payloads here use
DeviceTypes ==
    (1 :> "keypad") @@ (4 :> "motion") @@ (5 :> "entry") @@ (16 :> "lock")

\* event codes and sensor types that the tables do not have
UnknownCodes == {1000, 9999}
UnknownSensorTypes == {30, 999}

\* the other fields of the payload of the tests
TestInfo == "System Disarmed by Master PIN"
TestSid == 12345

\* the "data" objects of the messages that are decoded
EventPayloads ==
    [eventCid : DOMAIN EVENT_MAPPING \cup UnknownCodes,
     info : {TestInfo},
     sid : {TestSid},
     sensorType : {None} \cup DOMAIN DeviceTypes \cup UnknownSensorTypes]

\* the variant subscripts EVENT_MAPPING without asking whether the code is
\* a key, which raises KeyError on an unknown code
PostInit_unguarded(event_cid, sensor_type) ==
    LET member == sensor_type \in DOMAIN DeviceTypes
    IN  IF event_cid \notin DOMAIN EVENT_MAPPING
        THEN [raised |-> "KeyError", event_type |-> "none",
              sensor_type |-> "none", log |-> <<>>]
        ELSE [raised |-> "none",
              event_type |-> EVENT_MAPPING[event_cid],
              sensor_type |-> IF sensor_type # None /\ member
                              THEN DeviceTypes[sensor_type] ELSE "None",
              log |-> IF sensor_type # None /\ ~member
                      THEN <<"unknown entity type">> ELSE <<>>]

\* WebsocketEvent.__post_init__: the event type is the table's entry, or
\* None with a warning; the sensor type, unless None, is the member with
\* that value, or None with a warning when DeviceTypes(...) raises
\* ValueError
PostInit(event_cid, sensor_type) ==
    LET known == event_cid \in DOMAIN EVENT_MAPPING
        member == sensor_type \in DOMAIN DeviceTypes
    IN  [raised |-> "none",
         event_type |-> IF known THEN EVENT_MAPPING[event_cid] ELSE "None",
         sensor_type |-> IF sensor_type # None /\ member
                         THEN DeviceTypes[sensor_type] ELSE "None",
         log |-> (IF known THEN <<>> ELSE <<"unknown websocket event type">>)
                 \o (IF sensor_type # None /\ ~member
                     THEN <<"unknown entity type">> ELSE <<>>)]

\* websocket_event_from_payload: the event made from the "data" object, and
\* what was logged on the way
websocket_event_from_payload(payload) ==
    LET post == PostInit(payload.eventCid, payload.sensorType)
    IN  [event |-> IF post.raised # "none"
                   THEN [NoEvent EXCEPT !.raised = post.raised]
                   ELSE [raised |-> "none",
                         event_type |-> post.event_type,
                         info |-> payload.info,
                         system_id |-> payload.sid,
                         sensor_type |-> post.sensor_type],
         log |-> post.log]

\* one message is to be decoded
InitEvents ==
    /\ Constructed
    /\ Idle
    /\ response = NoResponse
    /\ outcome = NoOutcome
    /\ ev_payload \in EventPayloads
    /\ ev_event = NoEvent
    /\ ev_log = <<>>

\* the message is decoded
DecodeEvent ==
    /\ ev_event = NoEvent
    /\ ev_event' = websocket_event_from_payload(ev_payload).event
    /\ ev_log' = websocket_event_from_payload(ev_payload).log
    /\ UNCHANGED <<ev_payload, apiCore, now, wsVars, wsCbVars, devVars, wdVars>>

NextEvents == DecodeEvent

SpecEvents == InitEvents /\ [][NextEvents]_vars

\* the event of the payload was made
Decoded == ev_event # NoEvent

\* C33: decoding never raises on an unrecognized value.  A code of the table
\* yields the table's category (1400 yields disarmed_by_master_pin) and no
\* entry about the code in the log; a code absent from the table yields the
\* event type None and exactly one log entry about it; an unrecognized
\* sensor type yields the sensor type None and one log entry, and the rest
\* of the event (type, info, system id) is produced all the same.
C33_DecodingNeverRaises ==
    Decoded =>
        LET code == ev_payload.eventCid
            sensor == ev_payload.sensorType
            aboutCode == {i \in 1..Len(ev_log) :
                            ev_log[i] = "unknown websocket event type"}
            aboutSensor == {i \in 1..Len(ev_log) :
                              ev_log[i] = "unknown entity type"}
        IN  /\ ev_event.raised = "none"
            /\ code = 1400 => ev_event.event_type = "disarmed_by_master_pin"
            /\ code \in DOMAIN EVENT_MAPPING
                 => /\ ev_event.event_type = EVENT_MAPPING[code]
                    /\ aboutCode = {}
            /\ code \in UnknownCodes
                 => /\ ev_event.event_type = "None"
                    /\ Cardinality(aboutCode) = 1
            /\ sensor \in UnknownSensorTypes
                 => /\ ev_event.sensor_type = "None"
                    /\ Cardinality(aboutSensor) = 1
            /\ sensor \in DOMAIN DeviceTypes
                 => /\ ev_event.sensor_type = DeviceTypes[sensor]
                    /\ aboutSensor = {}
            /\ ev_event.info = ev_payload.info
            /\ ev_event.system_id = ev_payload.sid

\* an event with an unknown code and an unknown sensor type was decoded
C33_Witness ==
    /\ Decoded
    /\ ev_payload.eventCid = 9999
    /\ ev_payload.sensorType = 999
    /\ ev_event.event_type = "None"
    /\ ev_event.sensor_type = "None"
    /\ ev_event.info = TestInfo
    /\ Len(ev_log) = 2

(***************************************************************************)
(* The websocket watchdog: a timer that invokes its action when it is not  *)
(* triggered again or cancelled within the timeout.  Every trigger hands   *)
(* one timer to the event loop; Watchdog._timer_task names the one the     *)
(* watchdog holds.  The event loop runs a timer that is due before it lets *)
(* more time pass.                                                         *)
(***************************************************************************)

\* the timeout of the watchdog, in seconds
WatchdogTimeout == 2

\* the timers the event loop still holds to run
Pending == {i \in 1..Len(wd_timers) : wd_timers[i].state = "pending"}

\* the timers that ran
Fired == {i \in 1..Len(wd_timers) : wd_timers[i].state = "fired"}

\* the timers whose deadline has come
Due == {i \in Pending : wd_timers[i].deadline <= now}

\* the timer's handle is cancelled: a cancelled or finished timer stays as it is
CancelTimer(timers, i, by) ==
    IF i # NoTimer /\ timers[i].state = "pending"
    THEN [timers EXCEPT ![i].state = "cancelled", ![i].by = by]
    ELSE timers

\* the variant schedules the new timer without cancelling the one it holds
WdTrigger_noCancel ==
    /\ Len(wd_timers) < MaxTriggers
    /\ wd_timers' = Append(wd_timers,
                           [deadline |-> now + WatchdogTimeout,
                            state |-> "pending", by |-> "none"])
    /\ wd_timer_task' = Len(wd_timers) + 1
    /\ UNCHANGED <<wd_calls, apiCore, now, wsVars, wsCbVars, devVars, evVars>>

\* Watchdog.trigger: cancels the timer it holds and schedules a new one,
\* due after the timeout
WdTrigger ==
    /\ Len(wd_timers) < MaxTriggers
    /\ wd_timers' = Append(CancelTimer(wd_timers, wd_timer_task, "trigger"),
                           [deadline |-> now + WatchdogTimeout,
                            state |-> "pending", by |-> "none"])
    /\ wd_timer_task' = Len(wd_timers) + 1
    /\ UNCHANGED <<wd_calls, apiCore, now, wsVars, wsCbVars, devVars, evVars>>

\* the variant forgets the timer without cancelling it
WdCancel_forgets ==
    /\ wd_timer_task # NoTimer
    /\ wd_timer_task' = NoTimer
    /\ UNCHANGED <<wd_timers, wd_calls, apiCore, now, wsVars, wsCbVars, devVars,
                   evVars>>

\* Watchdog.cancel: cancels the timer it holds and forgets it
WdCancel ==
    /\ wd_timer_task # NoTimer
    /\ wd_timers' = CancelTimer(wd_timers, wd_timer_task, "cancel")
    /\ wd_timer_task' = NoTimer
    /\ UNCHANGED <<wd_calls, apiCore, now, wsVars, wsCbVars, devVars, evVars>>

\* the event loop runs a timer that is due: the watchdog has expired, its
\* action is invoked and the watchdog is idle again
WdExpire ==
    /\ \E i \in Due :
         /\ wd_timers' = [wd_timers EXCEPT ![i].state = "fired"]
         /\ wd_timer_task' = IF wd_timer_task = i THEN NoTimer ELSE wd_timer_task
    /\ wd_calls' = wd_calls + 1
    /\ UNCHANGED <<apiCore, now, wsVars, wsCbVars, devVars, evVars>>

\* one second passes while no timer is due
WdTick ==
    /\ Due = {}
    /\ now < MaxTime
    /\ now' = now + 1
    /\ UNCHANGED <<apiCore, wsVars, wsCbVars, auxVars>>

NextWatchdog ==
    \/ WdTrigger
    \/ WdCancel
    \/ WdExpire
    \/ WdTick

SpecWatchdog == Init /\ [][NextWatchdog]_vars

\* when the timer was scheduled
TriggeredAt(i) == wd_timers[i].deadline - WatchdogTimeout

\* C31: a trigger that comes before the timeout of the previous trigger has
\* elapsed cancels the pending expiration and replaces it: the replaced timer
\* never runs, the new one is due one timeout after the second trigger, and
\* the action is invoked once for every timer that ran, at that timer's
\* deadline.  At no time is more than one expiration pending, and the pending
\* one is the one the watchdog holds.
C31_QuickTriggerReplacesExpiration ==
    /\ [](/\ Cardinality(Pending) <= 1
          /\ \A i \in Pending : wd_timer_task = i /\ now <= wd_timers[i].deadline
          /\ wd_calls = Cardinality(Fired)
          /\ \A i \in 1..Len(wd_timers) :
               (i < Len(wd_timers) /\ TriggeredAt(i + 1) < wd_timers[i].deadline)
                 => wd_timers[i].state = "cancelled")
    /\ [][/\ Len(wd_timers') > Len(wd_timers)
             => /\ Pending' = {Len(wd_timers')}
                /\ wd_timers'[Len(wd_timers')].deadline = now + WatchdogTimeout
                /\ \A i \in Pending : wd_timers'[i].state = "cancelled"
          /\ wd_calls' # wd_calls
             => /\ wd_calls' = wd_calls + 1
                /\ wd_timer_task \in Pending
                /\ wd_timers[wd_timer_task].deadline = now
                /\ Fired' = Fired \cup {wd_timer_task}]_vars

\* the watchdog was triggered at 0 and again at 1, before the first timeout
\* had elapsed; the action was invoked once, at 3
C31_Witness ==
    /\ Len(wd_timers) = 2
    /\ TriggeredAt(1) = 0
    /\ TriggeredAt(2) = 1
    /\ wd_timers[1].state = "cancelled"
    /\ wd_timers[1].by = "trigger"
    /\ wd_timers[2].state = "fired"
    /\ wd_calls = 1
    /\ now = 1 + WatchdogTimeout

\* the timers that Watchdog.cancel cancelled
CancelledCycles == {i \in 1..Len(wd_timers) : wd_timers[i].by = "cancel"}

\* C32: after cancel() on an armed watchdog the action is never invoked for
\* the cancelled cycle: the cancelled timer never runs and nothing is left
\* pending, so the action is invoked again only for a timer that a later
\* trigger() scheduled and that reached its deadline without being
\* cancelled or replaced.
C32_CancelledCycleNeverFires ==
    /\ [](/\ CancelledCycles \cap (Fired \cup Pending) = {}
          /\ wd_timer_task = NoTimer => Pending = {})
    /\ [][/\ \A i \in 1..Len(wd_timers) :
               wd_timers[i].state = "cancelled" => wd_timers'[i] = wd_timers[i]
          /\ CancelledCycles' # CancelledCycles
               => Pending' = {} /\ wd_timer_task' = NoTimer /\ wd_calls' = wd_calls
          /\ wd_calls' # wd_calls
               => \E i \in Pending :
                    /\ i = Len(wd_timers)
                    /\ \A j \in CancelledCycles : j < i
                    /\ wd_timers[i].by = "none"
                    /\ now = TriggeredAt(i) + WatchdogTimeout
                    /\ Fired' = Fired \cup {i}]_vars

\* the watchdog was triggered at 0 and cancelled before its timeout had
\* elapsed; time went past the deadline without an invocation; a later
\* trigger() ran its full timeout and the action was invoked once
C32_Witness ==
    /\ Len(wd_timers) = 2
    /\ TriggeredAt(1) = 0
    /\ wd_timers[1].by = "cancel"
    /\ wd_timers[1].state = "cancelled"
    /\ TriggeredAt(2) > wd_timers[1].deadline
    /\ wd_timers[2].state = "fired"
    /\ wd_calls = 1

====
